---- MODULE Spec2Model ----
(***************************************************************************)
(* A model of @adobe/node-fetch-retry 2.2.0 (index.js): the retry loop     *)
(* wrappedFetch around node-fetch, its policy resolution retryInit, the    *)
(* retry decision shouldRetry and the per-attempt socket timer.            *)
(*                                                                         *)
(* Numbers.  A JavaScript number n is represented by the integer 2 * n     *)
(* ("halves"), so that retryMaxDuration * 0.5 is exact for every integer   *)
(* number of milliseconds and a non-integer such as 1.5 has a              *)
(* representation (3).  ms(n) is n milliseconds.  Date.now() and every     *)
(* duration the program computes from integers is an even number of        *)
(* halves.                                                                 *)
(*                                                                         *)
(* Values.  A JavaScript value is a record [t, v]: t is its type tag and v *)
(* an integer (the number in halves, the identity of a function, 1 for the *)
(* string 'true').                                                         *)
(***************************************************************************)
EXTENDS Integers, Sequences, FiniteSets, TLC

VARIABLES
    now,        \* Date.now(), in halves
    env,        \* process.env: the variables retryInit reads
    options,    \* the options objects of the callers, by identity
    aborted,    \* the AbortSignals that have been aborted
    ctlCount,   \* how many AbortControllers wrappedFetch has constructed
    calls       \* every invocation of module.exports, by identity

vars == <<now, env, options, aborted, ctlCount, calls>>

-----------------------------------------------------------------------------
(* JavaScript values *)

\* the integer n, and n milliseconds
Whole(n) == 2 * n
ms(n) == Whole(n)

Undefined == [t |-> "undefined", v |-> 0]
NaN == [t |-> "NaN", v |-> 0]
Num(n) == [t |-> "number", v |-> n]
Infinity == [t |-> "Infinity", v |-> 0]
Bool(b) == [t |-> "boolean", v |-> IF b THEN 1 ELSE 0]
StrText == [t |-> "string", v |-> 0]        \* a non-empty, non-numeric string
StrTrue == [t |-> "string", v |-> 1]        \* the string 'true'
NumStr(n) == [t |-> "numstring", v |-> n]   \* the decimal string of the integer n / 2
Func(id) == [t |-> "function", v |-> id]

\* ToBoolean, as &&, || and if (x) apply it
Truthy(x) ==
    CASE x.t = "undefined" -> FALSE
      [] x.t = "NaN" -> FALSE
      [] x.t = "number" -> x.v # 0
      [] x.t = "boolean" -> x.v = 1
      [] OTHER -> TRUE

\* x || y
OrElse(x, y) == IF Truthy(x) THEN x ELSE y

\* Number.isInteger(x)
IsInteger(x) == x.t = "number" /\ x.v % 2 = 0

\* parseInt(x) of an environment variable
parseInt(x) == IF x.t = "numstring" THEN Num(x.v) ELSE NaN

\* x * 0.5 of a number in halves that is a whole number of milliseconds
Half(n) == n \div 2

\* a * b of two numbers in halves
Times(a, b) == (a * b) \div 2

-----------------------------------------------------------------------------
(* Errors and responses *)

url == "url"

Err(name, type, message, by) ==
    [name |-> name, type |-> type, message |-> message, arg |-> Undefined, by |-> by]

\* new Error of lines 134 and 137: arg is the value interpolated into the message
ErrWith(message, value) ==
    [name |-> "Error", type |-> "none", message |-> message, arg |-> value,
     by |-> "checkParameters"]

\* new FetchError('network timeout at ' + url, 'request-timeout')
NetworkTimeout(u) ==
    Err("FetchError", "request-timeout", <<"network timeout at ", u>>, "wrappedFetch")

\* the AbortError node-fetch rejects with when its signal is aborted; by records
\* whose abort it was ("timer": the controller of line 213, "caller": the caller's)
AbortError(by) == Err("AbortError", "aborted", <<"The user aborted a request.">>, by)

-----------------------------------------------------------------------------
(* checkParameters, part_001 lines 126-146.  The messages are the source's,  *)
(* without the backquotes around the field's name.                         *)

NoRetryOptions ==
    [kind |-> "undefined",
     retryMaxDuration |-> Undefined, retryInitialDelay |-> Undefined,
     retryBackoff |-> Undefined, retryOnHttpResponse |-> Undefined,
     retryOnHttpError |-> Undefined, socketTimeout |-> Undefined,
     forceSocketTimeout |-> Undefined]

RetryOptionsFalse == [NoRetryOptions EXCEPT !.kind = "false"]

NotNegativeInteger(x) == IsInteger(x) /\ x.v >= 0

OK == Err("none", "none", <<>>, "none")

checkParameters(retryOptions) ==
    IF Truthy(retryOptions.retryMaxDuration)
          /\ ~NotNegativeInteger(retryOptions.retryMaxDuration)
    THEN Err("Error", "none", <<"retryMaxDuration must not be a negative integer">>,
             "checkParameters")
    ELSE IF Truthy(retryOptions.retryInitialDelay)
          /\ ~NotNegativeInteger(retryOptions.retryInitialDelay)
    THEN Err("Error", "none", <<"retryInitialDelay must not be a negative integer">>,
             "checkParameters")
    ELSE IF Truthy(retryOptions.retryOnHttpResponse)
          /\ retryOptions.retryOnHttpResponse.t # "function"
    THEN ErrWith(<<"'retryOnHttpResponse' must be a function: ">>,
                 retryOptions.retryOnHttpResponse)
    ELSE IF Truthy(retryOptions.retryOnHttpError)
          /\ retryOptions.retryOnHttpError.t # "function"
    THEN ErrWith(<<"'retryOnHttpError' must be a function: ">>,
                 retryOptions.retryOnHttpError)
    ELSE IF retryOptions.retryBackoff.t # "undefined"
          /\ ~(IsInteger(retryOptions.retryBackoff) /\ retryOptions.retryBackoff.v >= Whole(1))
    THEN Err("Error", "none", <<"retryBackoff must be a positive integer >= 1">>,
             "checkParameters")
    ELSE IF Truthy(retryOptions.socketTimeout)
          /\ ~NotNegativeInteger(retryOptions.socketTimeout)
    THEN Err("Error", "none", <<"socketTimeout must not be a negative integer">>,
             "checkParameters")
    ELSE OK

-----------------------------------------------------------------------------
(* retryInit, part_001 lines 66-107 *)

\* the function of lines 99-100 and the one of lines 101-102
DefaultRetryOnHttpResponse == Func(0)
DefaultRetryOnHttpError == Func(1)

\* parseInt(process.env.X) || d
EnvOr(x, d) == OrElse(parseInt(x), Num(d)).v

DEFAULT_MAX_RETRY(e) == EnvOr(e.NODE_FETCH_RETRY_MAX_RETRY, ms(60000))
DEFAULT_INITIAL_WAIT(e) == EnvOr(e.NODE_FETCH_RETRY_INITIAL_WAIT, ms(100))
DEFAULT_BACKOFF(e) == EnvOr(e.NODE_FETCH_RETRY_BACKOFF, Whole(2))
DEFAULT_SOCKET_TIMEOUT(e) == EnvOr(e.NODE_FETCH_RETRY_SOCKET_TIMEOUT, ms(30000))
DEFAULT_FORCE_TIMEOUT(e) == OrElse(e.NODE_FETCH_RETRY_FORCE_TIMEOUT, Bool(FALSE))

\* process.env.__OW_ACTION_DEADLINE && (process.env.__OW_ACTION_DEADLINE - Date.now())
timeTillActionTimeout(e, t) ==
    IF ~Truthy(e.OW_ACTION_DEADLINE) THEN e.OW_ACTION_DEADLINE
    ELSE IF e.OW_ACTION_DEADLINE.t = "numstring" THEN Num(e.OW_ACTION_DEADLINE.v - t)
    ELSE NaN

\* lines 78-83
ClampToDeadline(requested, tt) ==
    IF Truthy(tt) /\ requested > tt.v THEN tt.v ELSE requested

\* lines 84-87
ClampSocketTimeout(socketTimeoutValue, retryMaxDuration) ==
    IF socketTimeoutValue >= retryMaxDuration THEN Half(retryMaxDuration)
    ELSE socketTimeoutValue

\* the condition of line 88
ForceSocketTimeout(retryOptions, e) ==
    \/ Truthy(retryOptions.forceSocketTimeout)
    \/ DEFAULT_FORCE_TIMEOUT(e) = StrTrue
    \/ DEFAULT_FORCE_TIMEOUT(e) = Bool(TRUE)

\* lines 84-92
SocketTimeoutValue(retryOptions, e, retryMaxDuration) ==
    IF ForceSocketTimeout(retryOptions, e) THEN retryOptions.socketTimeout
    ELSE Num(ClampSocketTimeout(
                 OrElse(retryOptions.socketTimeout, Num(DEFAULT_SOCKET_TIMEOUT(e))).v,
                 retryMaxDuration))

\* (typeof f === 'function' && f) || d
FunctionOr(f, d) == IF f.t = "function" THEN f ELSE d

\* The value retryInit returns ("object": lines 94-104, "false": line 106) or the
\* error checkParameters throws ("throw").  opts is the options object, t is Date.now().
retryInit(opts, e, t) ==
    IF opts.retryOptions.kind # "false"
    THEN LET retryOptions == opts.retryOptions
             thrown == checkParameters(retryOptions)
             retryMaxDuration ==
                 ClampToDeadline(
                     OrElse(retryOptions.retryMaxDuration, Num(DEFAULT_MAX_RETRY(e))).v,
                     timeTillActionTimeout(e, t))
         IN  IF thrown # OK THEN [kind |-> "throw", error |-> thrown]
             ELSE [kind |-> "object",
                   startTime |-> t,
                   retryMaxDuration |-> retryMaxDuration,
                   retryInitialDelay |->
                       OrElse(retryOptions.retryInitialDelay,
                              Num(DEFAULT_INITIAL_WAIT(e))).v,
                   retryBackoff |->
                       OrElse(retryOptions.retryBackoff, Num(DEFAULT_BACKOFF(e))).v,
                   retryOnHttpResponse |->
                       FunctionOr(retryOptions.retryOnHttpResponse,
                                  DefaultRetryOnHttpResponse),
                   retryOnHttpError |->
                       FunctionOr(retryOptions.retryOnHttpError, DefaultRetryOnHttpError),
                   socketTimeout |->
                       SocketTimeoutValue(retryOptions, e, retryMaxDuration)]
    ELSE [kind |-> "false"]

-----------------------------------------------------------------------------
(* The retry decision, part_001 lines 18-59 and 153-165 *)

\* a < b of two values that are numbers, Infinity or NaN
LessThan(a, b) ==
    CASE a.t = "NaN" \/ b.t = "NaN" -> FALSE
      [] a.t = "Infinity" -> FALSE
      [] b.t = "Infinity" -> TRUE
      [] OTHER -> a.v < b.v

Max(a, b) == IF a >= b THEN a ELSE b

\* a getTimeRemaining that would not look at the clock
getTimeRemainingWithoutClock(retryOptions, t) ==
    IF retryOptions.kind = "object" /\ retryOptions.startTime # 0
          /\ retryOptions.retryMaxDuration # 0
    THEN Num(Max(0, retryOptions.retryMaxDuration))
    ELSE Infinity

\* lines 18-26; t is Date.now()
getTimeRemaining(retryOptions, t) ==
    IF retryOptions.kind = "object" /\ retryOptions.startTime # 0
          /\ retryOptions.retryMaxDuration # 0
    THEN Num(Max(0, retryOptions.retryMaxDuration - (t - retryOptions.startTime)))
    ELSE Infinity

\* a loop condition that would let an attempt start with no time remaining
isResponseTimedOutBelowZero(retryOptions, t) ==
    LessThan(getTimeRemaining(retryOptions, t), Num(0))

\* lines 33-35
isResponseTimedOut(retryOptions, t) ==
    ~LessThan(Num(0), getTimeRemaining(retryOptions, t))

\* a delay that would add the jitter twice
getRetryDelayTwiceJitter(retryOptions, jitter) ==
    IF retryOptions.kind = "object"
    THEN Num(retryOptions.retryInitialDelay + 2 * jitter)
    ELSE NaN

\* a delay that would be computed from the delay already multiplied for the next round
getRetryDelayMultiplied(retryOptions, jitter) ==
    IF retryOptions.kind = "object"
    THEN Num(Times(retryOptions.retryInitialDelay, retryOptions.retryBackoff) + jitter)
    ELSE NaN

\* lines 115-118; jitter is Math.floor(Math.random() * 100)
getRetryDelay(retryOptions, jitter) ==
    IF retryOptions.kind = "object" THEN Num(retryOptions.retryInitialDelay + jitter)
    ELSE NaN

\* lines 99-100
\* a response predicate that would let status 500 through
retryOnStatusAbove500(response) == response.status > 500

\* line 100: (response) => { return response.status >= 500; }
retryOnStatus(response) == response.status >= 500

\* an error predicate that would retry on AbortError alone
shouldRetryOnAbortOnly(error) == error.name = "AbortError"

\* an error predicate that would retry on every FetchError, whatever its type
shouldRetryOnAnyFetchError(error) == error.name \in {"FetchError", "AbortError"}

\* lines 153-165
shouldRetryOnHttpError(error) ==
    IF error.name = "FetchError" /\ error.type = "system" THEN TRUE
    ELSE IF error.name = "AbortError" THEN TRUE
    ELSE FALSE

\* a shouldRetry that would ask the predicates without looking at the time remaining
shouldRetryWhateverRemains(retryOptions, outcome, waitTime, t) ==
    IF retryOptions.kind = "object" /\ Truthy(retryOptions.retryOnHttpError)
          /\ outcome.k = "error" THEN "error"
    ELSE IF retryOptions.kind = "object" /\ Truthy(retryOptions.retryOnHttpResponse)
    THEN "response"
    ELSE "no"

\* What shouldRetry does (lines 45-59): it returns false ("no"), or it returns what
\* the error predicate ("error") or the response predicate ("response") returns.
\* An outcome is [k |-> "response", response |-> r] or [k |-> "error", error |-> e].
shouldRetry(retryOptions, outcome, waitTime, t) ==
    IF LessThan(getTimeRemaining(retryOptions, t), waitTime) THEN "no"
    ELSE IF retryOptions.kind = "object" /\ Truthy(retryOptions.retryOnHttpError)
              /\ outcome.k = "error" THEN "error"
    ELSE IF retryOptions.kind = "object" /\ Truthy(retryOptions.retryOnHttpResponse)
    THEN "response"
    ELSE "no"

-----------------------------------------------------------------------------
(* Signals, timers and the state of one invocation *)

NoSignal == [src |-> "none", id |-> 0]
CallerSignal(o) == [src |-> "caller", id |-> o]         \* options.signal as the caller set it
ControllerSignal(n) == [src |-> "controller", id |-> n] \* controller.signal of line 214

NoTimer == [armed |-> FALSE, at |-> 0, ctl |-> 0]
NoOutcome == [k |-> "none"]
NoPolicy == [kind |-> "none"]

\* setTimeout(f, d) runs f no sooner than max(d, 1) milliseconds later
TimerDelay(d) == Max(d, ms(1))

\* retryOptions.socketTimeout, of the value retryInit returned
SocketTimeoutOf(retryOptions) ==
    IF retryOptions.kind = "object" THEN retryOptions.socketTimeout ELSE Undefined

IdleCall(o) ==
    [pc |-> "idle", opt |-> o, retryOptions |-> NoPolicy, attempt |-> 0,
     waitTime |-> NaN, timeoutHandler |-> NoTimer, signal |-> NoSignal,
     outcome |-> NoOutcome, wakeAt |-> 0, result |-> NoOutcome, line |-> 0,
     settled |-> 0, endedAt |-> 0, resolved |-> NoPolicy,
     given |-> NoRetryOptions, givenSignal |-> NoSignal, hist |-> <<>>]

Terminal(c) == c.pc \in {"resolved", "rejected", "abandoned", "capped"}

\* what a step of wrappedFetch leaves behind: the invocation, its options object and
\* the number of controllers constructed
Eff(c, o, n) == [call |-> c, o |-> o, n |-> n]

\* The history of an invocation has one entry per attempt: when it started (start),
\* the signal fetch was given (signal) and whether it was aborted already (cancelled),
\* whether line 213 armed a timer (armed) and for when (timerAt), the delay of line
\* 208 (wait), how often shouldRetry was called (evals), when it was last called
\* (evalAt), the time remaining then (remaining) and whether it then called a predicate
\* (asked), the decision (verdict) and when it was known (decidedAt).
\* Noted is the invocation with the last entry's field f set to x.
Noted(c, f, x) == [c EXCEPT !.hist[Len(c.hist)] = [@ EXCEPT ![f] = x]]

\* resolve(response) of line 225 and reject(error) of lines 230, 232 and 245, with
\* clearTimeout of the finally block
\* a wrapper that would resolve with the responses of status below 400 alone and
\* reject for the others
ResolveSuccessOnly(c, response, line) ==
    IF response.status < 400
    THEN [c EXCEPT !.pc = "resolved", !.result = [k |-> "response", response |-> response],
                   !.line = line, !.settled = @ + 1, !.endedAt = now,
                   !.timeoutHandler = NoTimer]
    ELSE [c EXCEPT !.pc = "rejected",
                   !.result = [k |-> "error",
                               error |-> Err("Error", "none", <<"bad status">>,
                                             "wrappedFetch")],
                   !.line = line, !.settled = @ + 1, !.endedAt = now,
                   !.timeoutHandler = NoTimer]

Resolve(c, response, line) ==
    [c EXCEPT !.pc = "resolved", !.result = [k |-> "response", response |-> response],
              !.line = line, !.settled = @ + 1, !.endedAt = now,
              !.timeoutHandler = NoTimer]

\* a reject that would leave the finally block of lines 236-238 out
RejectLeavingTimer(c, error, line) ==
    [c EXCEPT !.pc = "rejected", !.result = [k |-> "error", error |-> error],
              !.line = line, !.settled = @ + 1, !.endedAt = now]

\* a reject that would not return from wrappedFetch: the loop goes on to its wait
RejectWithoutReturn(c, error, line) ==
    [c EXCEPT !.pc = "waiting", !.wakeAt = now + TimerDelay(c.waitTime.v),
              !.result = [k |-> "error", error |-> error],
              !.line = line, !.settled = @ + 1, !.endedAt = now,
              !.timeoutHandler = NoTimer]

Reject(c, error, line) ==
    [c EXCEPT !.pc = "rejected", !.result = [k |-> "error", error |-> error],
              !.line = line, !.settled = @ + 1, !.endedAt = now,
              !.timeoutHandler = NoTimer]

-----------------------------------------------------------------------------
(* wrappedFetch, part_001 lines 205-246 *)

\* attempts one invocation may start in the model
MaxAttempts == 4

\* a condition that would arm the timer whether or not the options hold a signal
ArmsTimerWhateverSignal(o, retryOptions) == Truthy(SocketTimeoutOf(retryOptions))

\* the condition of line 211
ArmsTimer(o, retryOptions) ==
    o.signal.src = "none" /\ Truthy(SocketTimeoutOf(retryOptions))

\* a loop exit that would reject with an error of its own, without the URL
LoopExitErrorWithoutUrl ==
    Err("FetchError", "request-timeout", <<"network timeout">>, "wrappedFetch")

\* the error of line 245 and the one of line 230
LoopExitError == NetworkTimeout(url)
AbortedError == NetworkTimeout(url)

\* lines 229-233: what the call is rejected with when error is not retried
RejectionFor(error) == IF error.name = "AbortError" THEN AbortedError ELSE error

\* line 224
Annotated(response, retryOptions) ==
    [response EXCEPT !.timeout = SocketTimeoutOf(retryOptions)]

\* a backoff that would add the delay of the first round instead of multiplying
BackoffLinear(c) ==
    [c EXCEPT !.retryOptions.retryInitialDelay = @ + c.resolved.retryInitialDelay]

\* a backoff that would multiply the backoff factor as well as the delay
BackoffAndFactor(c) ==
    [c EXCEPT !.retryOptions.retryInitialDelay = Times(@, c.retryOptions.retryBackoff),
              !.retryOptions.retryBackoff = Times(@, @)]

\* line 243
Backoff(c) ==
    [c EXCEPT !.retryOptions.retryInitialDelay = Times(@, c.retryOptions.retryBackoff)]

\* Lines 206-218, from the loop's condition to the call of fetch: t is Date.now(),
\* jitter the random part of the delay, n the number of controllers constructed.
LoopTop(c, o, n, t, jitter) ==
    IF isResponseTimedOut(c.retryOptions, t)
    THEN Eff(Reject(c, LoopExitError, 245), o, n)
    ELSE LET arm == ArmsTimer(o, c.retryOptions)
             sig == IF arm THEN ControllerSignal(n + 1) ELSE o.signal
             handler ==
                 IF arm
                 THEN [armed |-> TRUE,
                       at |-> t + TimerDelay(SocketTimeoutOf(c.retryOptions).v),
                       ctl |-> n + 1]
                 ELSE NoTimer
             waitTime == getRetryDelay(c.retryOptions, jitter)
         IN  Eff([c EXCEPT !.pc = "fetching", !.attempt = @ + 1, !.waitTime = waitTime,
                           !.timeoutHandler = handler, !.signal = sig,
                           !.outcome = NoOutcome,
                           !.hist = Append(@, [start |-> t, signal |-> sig, armed |-> arm,
                                               timerAt |-> handler.at,
                                               cancelled |-> sig \in aborted,
                                               wait |-> waitTime, evals |-> 0,
                                               evalAt |-> 0, remaining |-> NaN,
                                               asked |-> FALSE, verdict |-> "none",
                                               decidedAt |-> 0, got |-> "none"])],
                 [o EXCEPT !.signal = sig],
                 IF arm THEN n + 1 ELSE n)

\* an AfterOutcome that would start the next attempt without the wait of lines 240-242
AfterOutcomeWithoutWait(c, o, n, t, jitter, retry) ==
    LET c1 == Noted(Noted(c, "verdict", IF retry THEN "retry" ELSE "stop"),
                    "decidedAt", t)
        c2 == [c1 EXCEPT !.timeoutHandler = NoTimer]
    IN  IF ~retry
        THEN IF c.outcome.k = "response"
             THEN Eff(Resolve(c1, Annotated(c.outcome.response, c.retryOptions), 225),
                      o, n)
             ELSE Eff(Reject(c1, RejectionFor(c.outcome.error),
                             IF c.outcome.error.name = "AbortError" THEN 230 ELSE 232),
                      o, n)
        ELSE IF c.attempt >= MaxAttempts
             THEN Eff([c2 EXCEPT !.pc = "capped"], o, n)
             ELSE LoopTop(Backoff(c2), o, n, t, jitter)

\* Lines 220-243 once the retry decision for c.outcome is known: resolve or reject,
\* or clear the timer, wait and multiply the delay.
AfterOutcome(c, o, n, t, jitter, retry) ==
    LET c1 == Noted(Noted(c, "verdict", IF retry THEN "retry" ELSE "stop"),
                    "decidedAt", t)
        c2 == [c1 EXCEPT !.timeoutHandler = NoTimer]
    IN  IF ~retry
        THEN IF c.outcome.k = "response"
             THEN Eff(Resolve(c1, Annotated(c.outcome.response, c.retryOptions), 225),
                      o, n)
             ELSE Eff(Reject(c1, RejectionFor(c.outcome.error),
                             IF c.outcome.error.name = "AbortError" THEN 230 ELSE 232),
                      o, n)
        ELSE IF LessThan(Num(0), c.waitTime)
             THEN Eff([c2 EXCEPT !.pc = "waiting",
                                 !.wakeAt = t + TimerDelay(c.waitTime.v)], o, n)
             ELSE IF c.attempt >= MaxAttempts
                  THEN Eff([c2 EXCEPT !.pc = "capped"], o, n)
                  ELSE LoopTop(Backoff(c2), o, n, t, jitter)

\* Lines 220 and 228: shouldRetry is called for c.outcome.  A default predicate
\* answers at once; a predicate of the caller is awaited (pc evalResponse, evalError).
Evaluate(c, o, n, t, jitter) ==
    LET sr == shouldRetry(c.retryOptions, c.outcome, c.waitTime, t)
        c0 == Noted(c, "got", c.outcome.k)
        c1 == Noted(Noted(Noted(Noted(c0, "evals", c.hist[Len(c.hist)].evals + 1),
                                "evalAt", t),
                          "remaining", getTimeRemaining(c.retryOptions, t)),
                    "asked", FALSE)
        c2 == Noted(c1, "asked", TRUE)
    IN  CASE sr = "no" -> AfterOutcome(c1, o, n, t, jitter, FALSE)
          [] sr = "error" ->
                IF c.retryOptions.retryOnHttpError = DefaultRetryOnHttpError
                THEN AfterOutcome(c2, o, n, t, jitter,
                                  shouldRetryOnHttpError(c.outcome.error))
                ELSE Eff([c2 EXCEPT !.pc = "evalError"], o, n)
          [] sr = "response" ->
                IF c.retryOptions.retryOnHttpResponse = DefaultRetryOnHttpResponse
                THEN AfterOutcome(c2, o, n, t, jitter, retryOnStatus(c.outcome.response))
                ELSE Eff([c2 EXCEPT !.pc = "evalResponse"], o, n)

-----------------------------------------------------------------------------
(* The inputs the model draws *)

\* the invocations of module.exports and the options objects of a behaviour
CallIds == DOMAIN calls
OptIds == DOMAIN options

\* one invocation with an options object of its own
OneCall == {1}
OneObject == {1}

\* the longest time, in milliseconds since the start, at which a transport call or a
\* predicate of the caller is still let run on
MaxElapsed == 800

StartOfTime == ms(1000)
Jitters == {0, ms(99)}
Latencies == {ms(100)}
Statuses == {200, 404, 500}

SystemError == Err("FetchError", "system", <<"request failed">>, "transport")
RedirectError == Err("FetchError", "max-redirect", <<"maximum redirect reached">>, "transport")
TransportErrors == {SystemError, RedirectError}
PredicateError == Err("Error", "none", <<"thrown by a predicate">>, "predicate")

UserRetryOnHttpResponse == Func(2)
UserRetryOnHttpError == Func(3)

Given == [NoRetryOptions EXCEPT !.kind = "object"]

UserRetryOptions ==
    { RetryOptionsFalse,
      NoRetryOptions,
      [Given EXCEPT !.retryMaxDuration = Num(ms(300)), !.socketTimeout = Num(ms(500)),
                    !.forceSocketTimeout = Bool(TRUE)],
      [Given EXCEPT !.retryInitialDelay = Num(ms(5000)),
                    !.retryMaxDuration = Num(ms(1000))],
      [Given EXCEPT !.retryMaxDuration = Num(ms(600)), !.socketTimeout = Num(ms(50000)),
                    !.retryOnHttpResponse = UserRetryOnHttpResponse,
                    !.retryOnHttpError = UserRetryOnHttpError],
      [Given EXCEPT !.retryMaxDuration = Num(ms(400)), !.retryInitialDelay = Num(ms(100)),
                    !.retryBackoff = Num(Whole(1)), !.socketTimeout = Num(ms(150))] }

NoEnv ==
    [NODE_FETCH_RETRY_MAX_RETRY |-> Undefined, NODE_FETCH_RETRY_INITIAL_WAIT |-> Undefined,
     NODE_FETCH_RETRY_BACKOFF |-> Undefined, NODE_FETCH_RETRY_SOCKET_TIMEOUT |-> Undefined,
     NODE_FETCH_RETRY_FORCE_TIMEOUT |-> Undefined, OW_ACTION_DEADLINE |-> Undefined]

Deadlines ==
    {Undefined, NumStr(StartOfTime - ms(1000)), NumStr(StartOfTime),
     NumStr(StartOfTime + ms(250))}

-----------------------------------------------------------------------------
(* The state machine *)

Init ==
    /\ now = StartOfTime
    /\ \E d \in Deadlines : env = [NoEnv EXCEPT !.OW_ACTION_DEADLINE = d]
    /\ \E ro \in UserRetryOptions, sig \in {NoSignal, CallerSignal(1)} :
          options = [o \in OneObject |-> [retryOptions |-> ro, signal |-> sig]]
    /\ aborted = {}
    /\ ctlCount = 0
    /\ calls = [c \in OneCall |-> IdleCall(1)]

\* the step of invocation c leaves eff behind
Apply(c, eff) ==
    /\ calls' = [calls EXCEPT ![c] = eff.call]
    /\ options' = [options EXCEPT ![calls[c].opt] = eff.o]
    /\ ctlCount' = eff.n

\* module.exports(url, options), lines 198-218: up to the first call of fetch, or the
\* rejection with what checkParameters throws
Call(c) ==
    /\ calls[c].pc = "idle"
    /\ LET o == options[calls[c].opt]
           r == retryInit(o, env, now)
           c0 == [calls[c] EXCEPT !.given = o.retryOptions, !.givenSignal = o.signal]
       IN  IF r.kind = "throw"
           THEN Apply(c, Eff(Reject(c0, r.error, 69), o, ctlCount))
           ELSE \E jitter \in Jitters :
                   Apply(c, LoopTop([c0 EXCEPT !.retryOptions = r, !.resolved = r,
                                               !.attempt = 0],
                                    [o EXCEPT !.retryOptions = NoRetryOptions],
                                    ctlCount, now, jitter))
    /\ UNCHANGED <<now, env, aborted>>

\* fetch resolves with a response (line 218)
FetchResponds(c, status) ==
    /\ calls[c].pc = "fetching"
    /\ calls[c].signal \notin aborted
    /\ \E jitter \in Jitters :
          Apply(c, Evaluate([calls[c] EXCEPT !.outcome =
                                 [k |-> "response",
                                  response |-> [status |-> status, id |-> calls[c].attempt,
                                                timeout |-> Num(0)]]],
                            options[calls[c].opt], ctlCount, now, jitter))
    /\ UNCHANGED <<now, env, aborted>>

\* fetch rejects with an error of its own (line 218 to line 227)
FetchFails(c, error) ==
    /\ calls[c].pc = "fetching"
    /\ calls[c].signal \notin aborted
    /\ \E jitter \in Jitters :
          Apply(c, Evaluate([calls[c] EXCEPT !.outcome = [k |-> "error", error |-> error]],
                            options[calls[c].opt], ctlCount, now, jitter))
    /\ UNCHANGED <<now, env, aborted>>

\* fetch rejects with an AbortError: its signal is aborted, or was when fetch was called
FetchAborted(c) ==
    /\ calls[c].pc = "fetching"
    /\ calls[c].signal \in aborted
    /\ \E jitter \in Jitters :
          Apply(c, Evaluate([calls[c] EXCEPT !.outcome =
                                 [k |-> "error",
                                  error |-> AbortError(IF calls[c].signal.src = "caller"
                                                       THEN "caller" ELSE "timer")]],
                            options[calls[c].opt], ctlCount, now, jitter))
    /\ UNCHANGED <<now, env, aborted>>

\* the predicate of the caller that shouldRetry awaits returns b
PredicateReturns(c, b) ==
    /\ calls[c].pc \in {"evalResponse", "evalError"}
    /\ \E jitter \in Jitters :
          Apply(c, AfterOutcome(calls[c], options[calls[c].opt], ctlCount, now, jitter, b))
    /\ UNCHANGED <<now, env, aborted>>

\* The predicate of the caller throws.  Thrown by the response predicate inside the try
\* block, the error is caught at line 227 and shouldRetry is called for it; thrown by
\* the error predicate inside the catch block, it leaves wrappedFetch through the
\* finally block and neither resolve nor reject is called.
PredicateThrows(c) ==
    /\ calls[c].pc \in {"evalResponse", "evalError"}
    /\ IF calls[c].pc = "evalResponse"
       THEN \E jitter \in Jitters :
               Apply(c, Evaluate([Noted(calls[c], "verdict", "threw")
                                     EXCEPT !.outcome = [k |-> "error",
                                                         error |-> PredicateError]],
                                 options[calls[c].opt], ctlCount, now, jitter))
       ELSE Apply(c, Eff([Noted(calls[c], "verdict", "threw")
                             EXCEPT !.pc = "abandoned", !.timeoutHandler = NoTimer],
                         options[calls[c].opt], ctlCount))
    /\ UNCHANGED <<now, env, aborted>>

\* the callback of line 213: controller.abort()
TimerFires(c) ==
    /\ calls[c].timeoutHandler.armed
    /\ now = calls[c].timeoutHandler.at
    /\ aborted' = aborted \cup {ControllerSignal(calls[c].timeoutHandler.ctl)}
    /\ calls' = [calls EXCEPT ![c].timeoutHandler = NoTimer]
    /\ UNCHANGED <<now, env, options, ctlCount>>

\* the wait of line 241 ends: lines 243 and 206-218
WaitEnds(c) ==
    /\ calls[c].pc = "waiting"
    /\ now = calls[c].wakeAt
    /\ calls[c].attempt < MaxAttempts
    /\ \E jitter \in Jitters :
          Apply(c, LoopTop(Backoff(calls[c]), options[calls[c].opt], ctlCount, now, jitter))
    /\ UNCHANGED <<now, env, aborted>>

\* the caller aborts the signal it put in the options object o
CallerAborts(o) ==
    /\ options[o].signal = CallerSignal(o)
    /\ CallerSignal(o) \notin aborted
    /\ \E c \in CallIds : calls[c].opt = o /\ ~Terminal(calls[c])
    /\ aborted' = aborted \cup {CallerSignal(o)}
    /\ UNCHANGED <<now, env, options, ctlCount, calls>>

\* the times at which a timer of the program is due
Due ==
    {calls[c].timeoutHandler.at : c \in {x \in CallIds : calls[x].timeoutHandler.armed}}
    \cup {calls[c].wakeAt : c \in {x \in CallIds : calls[x].pc = "waiting"}}

\* Time passes: by d while a transport call or a predicate of the caller runs on, or
\* up to the next timer that is due.  No timer is overrun, and an aborted fetch
\* rejects before time passes.
Advance(d) ==
    /\ d > 0
    /\ \A c \in CallIds : ~(calls[c].pc = "fetching" /\ calls[c].signal \in aborted)
    /\ \A at \in Due : now + d <= at
    /\ \/ now + d \in Due
       \/ /\ d \in Latencies
          /\ \E c \in CallIds : calls[c].pc \in {"fetching", "evalResponse", "evalError"}
          /\ now + d <= StartOfTime + ms(MaxElapsed)
    /\ now' = now + d
    /\ UNCHANGED <<env, options, aborted, ctlCount, calls>>

Next ==
    \/ \E c \in CallIds : Call(c)
    \/ \E c \in CallIds, status \in Statuses : FetchResponds(c, status)
    \/ \E c \in CallIds, error \in TransportErrors : FetchFails(c, error)
    \/ \E c \in CallIds : FetchAborted(c)
    \/ \E c \in CallIds, b \in BOOLEAN : PredicateReturns(c, b)
    \/ \E c \in CallIds : PredicateThrows(c)
    \/ \E c \in CallIds : TimerFires(c)
    \/ \E c \in CallIds : WaitEnds(c)
    \/ \E o \in OptIds : CallerAborts(o)
    \/ \E d \in Latencies \cup {at - now : at \in Due} : Advance(d)

Spec == Init /\ [][Next]_vars

-----------------------------------------------------------------------------
(* What the claims speak of *)

Last(c) == c.hist[Len(c.hist)]

\* retryInit returned a policy, not false
Retrying(c) == c.retryOptions.kind = "object"

\* the policy's socketTimeout is a number above 0
HasSocketTimeout(c) ==
    /\ Retrying(c)
    /\ c.retryOptions.socketTimeout.t = "number"
    /\ c.retryOptions.socketTimeout.v > 0

\* the caller put a signal of its own into the options object
CallerSupplied(c) == options[c.opt].signal = CallerSignal(c.opt)

\* the promise module.exports returned is settled
Settled(c) == c.pc \in {"resolved", "rejected"}

\* the result is the response the transport returned to the last attempt
SameResponse(c) ==
    /\ c.outcome.k = "response"
    /\ c.result.k = "response"
    /\ c.result.response.id = c.outcome.response.id
    /\ c.result.response.status = c.outcome.response.status

\* the result is the error object the last attempt ended with
SameError(c) ==
    /\ c.outcome.k = "error"
    /\ c.result.k = "error"
    /\ c.result.error = c.outcome.error

-----------------------------------------------------------------------------
(* C1: with retryOptions = false exactly one transport attempt is made and the  *)
(* call then ends with that attempt's outcome: the response the transport       *)
(* returned, whatever its status, or the very error it raised, a cancellation   *)
(* error included.                                                              *)
C1_DisabledReturnsVerbatim ==
    \A c \in CallIds :
       calls[c].retryOptions.kind = "false" =>
          /\ Len(calls[c].hist) = 1
          /\ calls[c].pc \in {"fetching", "resolved", "rejected"}
          /\ calls[c].pc = "resolved" => SameResponse(calls[c])
          /\ calls[c].pc = "rejected" => SameError(calls[c])

\* the same with the cancellation errors left out: this holds
C1_DisabledReturnsVerbatimUnlessAborted ==
    \A c \in CallIds :
       calls[c].retryOptions.kind = "false" =>
          /\ Len(calls[c].hist) = 1
          /\ calls[c].pc \in {"fetching", "resolved", "rejected"}
          /\ calls[c].pc = "resolved" => SameResponse(calls[c])
          /\ calls[c].pc = "rejected" =>
                \/ SameError(calls[c])
                \/ calls[c].outcome.error.name = "AbortError"

-----------------------------------------------------------------------------
(* C2: under a policy with socketTimeout > 0 and no signal of the caller,      *)
(* every attempt, the first and every later one, runs its transport call under *)
(* a timer armed for socketTimeout milliseconds after the attempt's start, and *)
(* the transport call is cancelled when the timer expires first.               *)
C2_EveryAttemptTimed ==
    \A c \in CallIds :
       (HasSocketTimeout(calls[c]) /\ ~CallerSupplied(calls[c])) =>
          \A k \in 1..Len(calls[c].hist) :
             /\ calls[c].hist[k].armed
             /\ calls[c].hist[k].timerAt =
                   calls[c].hist[k].start + calls[c].retryOptions.socketTimeout.v
             /\ (calls[c].pc = "fetching" /\ k = Len(calls[c].hist)) =>
                   \/ calls[c].timeoutHandler.armed /\ now <= calls[c].timeoutHandler.at
                   \/ calls[c].signal \in aborted

\* the same of the first attempt alone: this holds
C2_FirstAttemptTimed ==
    \A c \in CallIds :
       (HasSocketTimeout(calls[c]) /\ ~CallerSupplied(calls[c])
          /\ calls[c].retryOptions.socketTimeout.v >= ms(1)
          /\ calls[c].hist # <<>>) =>
             /\ calls[c].hist[1].armed
             /\ calls[c].hist[1].timerAt =
                   calls[c].hist[1].start + calls[c].retryOptions.socketTimeout.v
             /\ (calls[c].pc = "fetching" /\ Len(calls[c].hist) = 1) =>
                   \/ calls[c].timeoutHandler.armed /\ now <= calls[c].timeoutHandler.at
                   \/ calls[c].signal \in aborted

-----------------------------------------------------------------------------
(* C3: each attempt uses a fresh cancellation token: the token the transport   *)
(* is given at the start of attempt k+1 is not the token of attempt k and is   *)
(* not cancelled already.  (Stated of the calls whose tokens wrappedFetch      *)
(* makes: socketTimeout > 0 and no signal of the caller.)                      *)
C3_FreshTokenPerAttempt ==
    \A c \in CallIds :
       (HasSocketTimeout(calls[c]) /\ ~CallerSupplied(calls[c])) =>
          \A k \in 1..(Len(calls[c].hist) - 1) :
             /\ calls[c].hist[k + 1].signal # calls[c].hist[k].signal
             /\ ~calls[c].hist[k + 1].cancelled

-----------------------------------------------------------------------------
(* Scheduling.  A timer that is due runs, a rejected fetch and a wait that has   *)
(* ended are resumed, a predicate of the caller ends, and time passes.  Nothing  *)
(* makes the transport answer, and nothing makes the caller abort its signal.    *)
Fairness ==
    /\ \A c \in OneCall : WF_vars(Call(c))
    /\ \A c \in OneCall : WF_vars(TimerFires(c))
    /\ \A c \in OneCall : WF_vars(FetchAborted(c))
    /\ \A c \in OneCall : WF_vars(WaitEnds(c))
    /\ \A c \in OneCall :
          WF_vars((\E b \in BOOLEAN : PredicateReturns(c, b)) \/ PredicateThrows(c))
    /\ WF_vars(\E d \in Latencies \cup {at - now : at \in Due} : Advance(d))

\* the calls the scheduling is followed for: no deadline, and the two policies of
\* UserRetryOptions with a budget below a second
FairRetryOptions ==
    {ro \in UserRetryOptions :
        ro.retryMaxDuration \in {Num(ms(400)), Num(ms(600))}}

InitFair ==
    /\ Init
    /\ env = NoEnv
    /\ \A o \in OptIds : options[o].retryOptions \in FairRetryOptions

FairSpec == InitFair /\ [][Next]_vars /\ Fairness

\* the invocation has reached the number of attempts the model follows
OutOfModel(c) ==
    \/ c.pc = "capped"
    \/ c.pc = "waiting" /\ c.attempt >= MaxAttempts

\* both predicates are the defaults of lines 99-102, which neither suspend nor throw
DefaultPredicates(c) ==
    /\ Retrying(c)
    /\ c.retryOptions.retryOnHttpResponse = DefaultRetryOnHttpResponse
    /\ c.retryOptions.retryOnHttpError = DefaultRetryOnHttpError

(* C4: every call eventually resolves or rejects and never hangs: under a policy *)
(* with socketTimeout > 0 and no signal of the caller this holds whatever the    *)
(* transport does, also when on some attempt it never answers unless it is       *)
(* cancelled.  (Stated of the calls with the default predicates, so that the     *)
(* transport alone decides.)                                                     *)
C4_EveryCallTerminates ==
    \A c \in OneCall :
       (HasSocketTimeout(calls[c]) /\ ~CallerSupplied(calls[c])
           /\ DefaultPredicates(calls[c]))
          ~> (Settled(calls[c]) \/ OutOfModel(calls[c]))

\* the same of a call that is in its first attempt: this holds
C4_FirstAttemptEnds ==
    \A c \in OneCall :
       (HasSocketTimeout(calls[c]) /\ ~CallerSupplied(calls[c])
           /\ DefaultPredicates(calls[c]) /\ calls[c].attempt = 1
           /\ calls[c].pc = "fetching")
          ~> (calls[c].pc # "fetching")

-----------------------------------------------------------------------------
\* the invariants of a policy: maxDuration >= 0, initial delay >= 0, backoff factor
\* >= 1 and a socketTimeout >= 0
ValidPolicy(c) ==
    /\ Retrying(c)
    /\ c.retryOptions.retryMaxDuration >= 0
    /\ c.retryOptions.retryInitialDelay >= 0
    /\ c.retryOptions.retryBackoff >= Whole(1)
    /\ c.retryOptions.socketTimeout.t = "number"
    /\ c.retryOptions.socketTimeout.v >= 0

JitterMax == ms(99)

(* C5: under every valid policy, whatever the transport does, a call that fails  *)
(* has failed no later than maxDuration + socketTimeout + 99 milliseconds after  *)
(* its start.  (Stated of the calls that are timed by wrappedFetch alone: no     *)
(* signal of the caller, the default predicates.)                                *)
C5_FailureWithinBound ==
    \A c \in CallIds :
       (calls[c].pc = "rejected" /\ ValidPolicy(calls[c]) /\ ~CallerSupplied(calls[c])
           /\ DefaultPredicates(calls[c])) =>
          calls[c].endedAt - calls[c].retryOptions.startTime
             <= calls[c].retryOptions.retryMaxDuration
                   + calls[c].retryOptions.socketTimeout.v + JitterMax

(* C6: when an attempt ends with an error that is not retried, the call is       *)
(* rejected with the network timeout error exactly when that error is a          *)
(* cancellation by the timer of the attempt; every other error, a cancellation   *)
(* through the signal of the caller included, is the rejection itself.           *)
C6_TimeoutIffTimerCancellation ==
    \A c \in CallIds :
       calls[c].line \in {230, 232} =>
          /\ calls[c].pc = "rejected"
          /\ IF calls[c].outcome.error.name = "AbortError"
                   /\ calls[c].outcome.error.by = "timer"
             THEN calls[c].result.error = NetworkTimeout(url)
             ELSE SameError(calls[c])

\* C6 of the calls whose options carry no signal of the caller
C6_TimeoutIffCancellationNoCallerSignal ==
    \A c \in CallIds :
       (calls[c].line \in {230, 232} /\ ~CallerSupplied(calls[c])) =>
          /\ calls[c].pc = "rejected"
          /\ IF calls[c].outcome.error.name = "AbortError"
             THEN calls[c].result.error = NetworkTimeout(url)
                  /\ calls[c].outcome.error.by = "timer"
             ELSE SameError(calls[c])

(* C7: when the budget is found used up at the top of the loop, the call is      *)
(* rejected with the network timeout error of type request-timeout for the URL,  *)
(* the very error a cancelled attempt is rejected with, and no transport call is *)
(* started, neither in that step nor after it.                                   *)
C7_LoopExitIsNetworkTimeout ==
    [][\A c \in CallIds :
          /\ (calls[c].line # 245 /\ calls'[c].line = 245) =>
                /\ calls'[c].pc = "rejected"
                /\ calls'[c].result = [k |-> "error", error |-> AbortedError]
                /\ calls'[c].result.error.type = "request-timeout"
                /\ calls'[c].result.error.message = <<"network timeout at ", url>>
                /\ calls'[c].hist = calls[c].hist
                /\ calls'[c].attempt = calls[c].attempt
          /\ calls[c].line = 245 => calls'[c] = calls[c]]_vars

\* a call that waited after an attempt and was then rejected at line 245
C7_Witness ==
    \E c \in CallIds :
       /\ calls[c].line = 245
       /\ calls[c].pc = "rejected"
       /\ Len(calls[c].hist) >= 2
       /\ Last(calls[c]).verdict = "retry"

(* C8: whenever the retry decision for a received response is false, the call    *)
(* resolves with that response, the one the transport gave to the last attempt,  *)
(* whatever its status, and starts no further attempt.                           *)
C8_NonRetriedResponseIsTheResult ==
    [][\A c \in CallIds :
          (/\ Len(calls'[c].hist) > 0
           /\ calls'[c].hist[Len(calls'[c].hist)].verdict = "stop"
           /\ calls'[c].outcome.k = "response") =>
             /\ calls'[c].pc = "resolved"
             /\ calls'[c].line = 225
             /\ SameResponse(calls'[c])
             /\ calls'[c].result.response.id = calls'[c].attempt
             /\ calls'[c].attempt = Len(calls'[c].hist)
             /\ calls[c].pc = "resolved" => calls'[c] = calls[c]]_vars

\* a second attempt answered with 404, not retried, is the result of the call
C8_Witness ==
    \E c \in CallIds :
       /\ calls[c].pc = "resolved"
       /\ calls[c].attempt = 2
       /\ Last(calls[c]).verdict = "stop"
       /\ calls[c].outcome.k = "response"
       /\ calls[c].result.response.status = 404

\* max(0, maxDuration - elapsed) at the time shouldRetry was last called in attempt h
BudgetLeft(c, h) ==
    Max(0, c.retryOptions.retryMaxDuration - (h.evalAt - c.retryOptions.startTime))

C9_WaitWithinBudgetAtDecision ==
    \A c \in CallIds :
       (calls[c].pc = "waiting" /\ DefaultPredicates(calls[c])) =>
          calls[c].waitTime.v
             <= Max(0, calls[c].retryOptions.retryMaxDuration
                          - (Last(calls[c]).decidedAt - calls[c].retryOptions.startTime))

\* the attempt that ended a call: its response, its error, or the network timeout
\* error for the timer's cancellation of it
RawOutcome(c) ==
    \/ SameResponse(c)
    \/ SameError(c)
    \/ /\ c.outcome.k = "error"
       /\ c.outcome.error = AbortError("timer")
       /\ c.result = [k |-> "error", error |-> NetworkTimeout(url)]

\* retryInit returned a policy whose initial delay is above its maxDuration
DelayAboveMaxDuration(c) ==
    /\ c.resolved.kind = "object"
    /\ c.resolved.retryInitialDelay > c.resolved.retryMaxDuration

(* C10: when the initial delay retryInit resolved is greater than the            *)
(* maxDuration it resolved, the call makes exactly one attempt, never waits, and *)
(* resolves or rejects with the outcome of that attempt, whatever it is.         *)
C10_DelayAboveMaxDurationOneAttempt ==
    \A c \in CallIds :
       DelayAboveMaxDuration(calls[c]) =>
          /\ calls[c].pc \notin {"waiting", "capped", "abandoned"}
          /\ calls[c].wakeAt = 0
          /\ calls[c].attempt <= 1
          /\ Settled(calls[c]) =>
                /\ calls[c].attempt = 1
                /\ Len(calls[c].hist) = 1
                /\ RawOutcome(calls[c])

\* C10 of the policies whose maxDuration is not negative, without a signal of the
\* caller
C10_OneAttemptValidPolicy ==
    \A c \in CallIds :
       (DelayAboveMaxDuration(calls[c]) /\ calls[c].resolved.retryMaxDuration >= 0
           /\ ~CallerSupplied(calls[c])) =>
          /\ calls[c].pc \notin {"waiting", "capped", "abandoned"}
          /\ calls[c].wakeAt = 0
          /\ calls[c].attempt <= 1
          /\ Settled(calls[c]) =>
                /\ calls[c].attempt = 1
                /\ Len(calls[c].hist) = 1
                /\ RawOutcome(calls[c])

-----------------------------------------------------------------------------
\* every attempt made so far was answered with a response, the last of them of
\* status 500 when the default response predicate is the one that decides (the ones
\* before it were retried)
OnlyRetryableResponses(c) ==
    /\ Len(c.hist) >= 1
    /\ \A i \in 1..Len(c.hist) : c.hist[i].got = "response"
    /\ c.outcome.k = "response"
    /\ c.retryOptions.retryOnHttpResponse = DefaultRetryOnHttpResponse
          => c.outcome.response.status >= 500

(* C11: when every attempt returns a response the response predicate wants       *)
(* retried, the call never fails for lack of time: it is not rejected, and once  *)
(* it ends it has resolved with the last response received.                      *)
C11_RetriedResponsesNeverFail ==
    \A c \in CallIds :
       (Retrying(calls[c]) /\ OnlyRetryableResponses(calls[c])) =>
          /\ calls[c].pc # "rejected"
          /\ Settled(calls[c]) => SameResponse(calls[c])

RECURSIVE Power(_, _)
Power(b, n) == IF n = 0 THEN 1 ELSE b * Power(b, n - 1)

\* the rounds of c that are over: a retry was decided and its wait has ended
RoundsOver(c) ==
    Cardinality({i \in 1..Len(c.hist) : c.hist[i].verdict = "retry"})
       - (IF c.pc \in {"waiting", "capped"} THEN 1 ELSE 0)

\* delay = initialDelay * backoffFactor^n, both sides in halves times 2^n
DelayAfterRounds(c, n) ==
    c.retryOptions.retryInitialDelay * Power(Whole(1), n)
       = c.resolved.retryInitialDelay * Power(c.resolved.retryBackoff, n)

(* C12: after n rounds of a call (n retries decided and waited) the delay of the *)
(* call is initialDelay * backoffFactor^n, and no round makes the delay smaller  *)
(* when backoffFactor >= 1.                                                      *)
C12_DelayIsInitialTimesPower ==
    [][\A c \in CallIds :
          Retrying(calls'[c]) =>
             /\ DelayAfterRounds(calls'[c], RoundsOver(calls'[c]))
             /\ calls'[c].retryOptions.retryBackoff = calls'[c].resolved.retryBackoff
             /\ (Retrying(calls[c]) /\ calls'[c].resolved.retryBackoff >= Whole(1)
                   /\ calls'[c].resolved.retryInitialDelay >= 0) =>
                   calls'[c].retryOptions.retryInitialDelay
                      >= calls[c].retryOptions.retryInitialDelay]_vars

\* a fourth attempt of a call whose backoff factor is 2: three rounds are over and
\* the delay is eight times the initial delay
C12_Witness ==
    \E c \in CallIds :
       /\ Retrying(calls[c])
       /\ calls[c].resolved.retryBackoff = Whole(2)
       /\ calls[c].attempt = 4
       /\ RoundsOver(calls[c]) = 3
       /\ calls[c].retryOptions.retryInitialDelay = 8 * calls[c].resolved.retryInitialDelay
       /\ calls[c].resolved.retryInitialDelay > 0

\* retryInit resolved the hard defaults, no field given and no deadline in the way
DefaultPolicy(c) ==
    /\ c.resolved.kind = "object"
    /\ c.resolved.retryMaxDuration = ms(60000)
    /\ c.resolved.retryInitialDelay = ms(100)
    /\ c.resolved.retryBackoff = Whole(2)
    /\ c.resolved.socketTimeout = Num(ms(30000))
    /\ DefaultPredicates(c)

\* the retry notices of lines 221 and 234: one for each retry decided
RetryNotices(c) == Cardinality({i \in 1..Len(c.hist) : c.hist[i].verdict = "retry"})

\* the attempts before the last all ended with an error
ErrorsThenLast(c) ==
    /\ Len(c.hist) >= 1
    /\ \A i \in 1..(Len(c.hist) - 1) : c.hist[i].got = "error"

(* C13: under the default policy, when the first k attempts end with a retryable *)
(* transport error and the waits fit in the budget, every one of them is         *)
(* retried, and when attempt k+1 gets a response that is not retried the call    *)
(* resolves with it after exactly k+1 attempts and k retry notices.              *)
C13_ErrorsThenResponse ==
    \A c \in CallIds :
       (DefaultPolicy(calls[c]) /\ ErrorsThenLast(calls[c])) =>
          /\ (/\ Last(calls[c]).got = "error"
              /\ calls[c].outcome.error \in {SystemError, AbortError("timer")}
              /\ Last(calls[c]).wait.v <= BudgetLeft(calls[c], Last(calls[c]))) =>
                 Last(calls[c]).verdict = "retry"
          /\ (/\ Last(calls[c]).got = "response"
              /\ calls[c].outcome.response.status < 500) =>
                 /\ calls[c].pc = "resolved"
                 /\ SameResponse(calls[c])
                 /\ calls[c].attempt = Len(calls[c].hist)
                 /\ calls[c].outcome.response.id = calls[c].attempt
                 /\ RetryNotices(calls[c]) = Len(calls[c].hist) - 1

\* three transport errors, then status 200 on the fourth attempt
C13_Witness ==
    \E c \in CallIds :
       /\ DefaultPolicy(calls[c])
       /\ Len(calls[c].hist) = 4
       /\ ErrorsThenLast(calls[c])
       /\ calls[c].pc = "resolved"
       /\ calls[c].result.response.status = 200
       /\ calls[c].attempt = 4
       /\ RetryNotices(calls[c]) = 3

\* the attempts of c after which a wait was entered and followed by one more wait
ConsecutiveWaits(c) ==
    {i \in 1..(Len(c.hist) - 1) :
        c.hist[i].verdict = "retry" /\ c.hist[i + 1].verdict = "retry"}

(* C14: within one call each wait between attempts is at least the previous wait *)
(* multiplied by backoffFactor, whatever jitter was drawn.                       *)
C14_WaitAtLeastPreviousTimesBackoff ==
    \A c \in CallIds :
       Retrying(calls[c]) =>
          \A i \in ConsecutiveWaits(calls[c]) :
             Whole(1) * calls[c].hist[i + 1].wait.v
                >= calls[c].hist[i].wait.v * calls[c].resolved.retryBackoff

(* C14 as the code has it: the wait after attempt i is initialDelay *            *)
(* backoffFactor^(i-1) plus a jitter of 0 to 99 milliseconds, so each wait is at *)
(* least the previous wait less 99 milliseconds, multiplied by backoffFactor.    *)
C14_WaitIsDelayPlusJitter ==
    \A c \in CallIds :
       Retrying(calls[c]) =>
          /\ \A i \in 1..Len(calls[c].hist) :
                LET base == calls[c].resolved.retryInitialDelay
                               * Power(calls[c].resolved.retryBackoff, i - 1)
                    w == calls[c].hist[i].wait.v
                IN  /\ (w - JitterMax) * Power(Whole(1), i - 1) <= base
                    /\ base <= w * Power(Whole(1), i - 1)
          /\ \A i \in ConsecutiveWaits(calls[c]) :
                Whole(1) * calls[c].hist[i + 1].wait.v
                   >= (calls[c].hist[i].wait.v - JitterMax) * calls[c].resolved.retryBackoff

\* two waits in a row, the second shorter than the first times the backoff factor
C14_Witness ==
    \E c \in CallIds :
       /\ Retrying(calls[c])
       /\ \E i \in ConsecutiveWaits(calls[c]) :
             Whole(1) * calls[c].hist[i + 1].wait.v
                < calls[c].hist[i].wait.v * calls[c].resolved.retryBackoff

-----------------------------------------------------------------------------
(* Policy resolution on its own: module.exports is called once, up to its first  *)
(* call of fetch, for retry options, environment variables and deadlines drawn   *)
(* from wider sets than Init draws.                                              *)

\* values a caller gives that checkParameters accepts
GoodMaxDurations == {Undefined, Num(0), Num(ms(300)), Num(ms(1000))}
GoodInitialDelays == {Undefined, Num(0), Num(ms(500))}
GoodBackoffs == {Undefined, Num(Whole(3))}
GoodSocketTimeouts == {Undefined, Num(0), Num(ms(200)), Num(ms(2000))}
GoodForces == {Undefined, Bool(TRUE)}

\* values that are not integers >= 0 (1.5 is Num(3)), not integers >= 1, not functions
BadNumbers == {StrText, Num(ms(-1)), Num(3), NaN, Bool(FALSE)}
BadBackoffs == {StrText, Num(0), Num(3), NaN, Num(Whole(-2))}
BadFunctions == {Num(ms(123425)), StrText, Bool(FALSE), NaN}

WellFormedRetryOptions ==
    {[Given EXCEPT !.retryMaxDuration = md, !.retryInitialDelay = dl,
                   !.retryBackoff = bo, !.socketTimeout = st,
                   !.forceSocketTimeout = fo,
                   !.retryOnHttpResponse = IF up THEN UserRetryOnHttpResponse
                                           ELSE Undefined,
                   !.retryOnHttpError = IF up THEN UserRetryOnHttpError ELSE Undefined] :
        md \in GoodMaxDurations, dl \in GoodInitialDelays, bo \in GoodBackoffs,
        st \in GoodSocketTimeouts, fo \in GoodForces, up \in BOOLEAN}

\* at most two fields given, at least one of them with a bad value
MalformedRetryOptions ==
    LET Fields == {"retryMaxDuration", "retryInitialDelay", "retryBackoff",
                   "socketTimeout", "retryOnHttpResponse", "retryOnHttpError"}
        Bad(fd) == CASE fd = "retryBackoff" -> BadBackoffs
                     [] fd \in {"retryOnHttpResponse", "retryOnHttpError"} -> BadFunctions
                     [] OTHER -> BadNumbers
    IN  UNION {UNION {{[[Given EXCEPT ![g] = y] EXCEPT ![f] = x] :
                          x \in Bad(f), y \in Bad(g) \cup {Undefined}} :
                      g \in Fields} :
               f \in Fields}

EnvMaxRetries == {Undefined, NumStr(ms(700)), NumStr(ms(-5))}
EnvInitialWaits == {Undefined, NumStr(ms(50))}
EnvBackoffs == {Undefined, NumStr(Whole(3))}
EnvSocketTimeouts == {Undefined, NumStr(ms(200))}
EnvForces == {Undefined, StrTrue}

Envs ==
    {[NODE_FETCH_RETRY_MAX_RETRY |-> mr, NODE_FETCH_RETRY_INITIAL_WAIT |-> iw,
      NODE_FETCH_RETRY_BACKOFF |-> bo, NODE_FETCH_RETRY_SOCKET_TIMEOUT |-> st,
      NODE_FETCH_RETRY_FORCE_TIMEOUT |-> fo, OW_ACTION_DEADLINE |-> dl] :
        mr \in EnvMaxRetries, iw \in EnvInitialWaits, bo \in EnvBackoffs,
        st \in EnvSocketTimeouts, fo \in EnvForces, dl \in Deadlines}

InitResolve ==
    /\ now = StartOfTime
    /\ \E e \in Envs, ro \in WellFormedRetryOptions \cup MalformedRetryOptions :
          /\ ro \in MalformedRetryOptions => e \in {[NoEnv EXCEPT !.OW_ACTION_DEADLINE = d] :
                                                       d \in Deadlines}
          /\ env = e
          /\ options = [o \in OneObject |-> [retryOptions |-> ro, signal |-> NoSignal]]
    /\ aborted = {}
    /\ ctlCount = 0
    /\ calls = [c \in OneCall |-> IdleCall(1)]

NextResolve == \E c \in CallIds : Call(c)

ResolveSpec == InitResolve /\ [][NextResolve]_vars

-----------------------------------------------------------------------------
\* the fields of the retry options ro that are given and malformed: a duration that
\* is not an integer >= 0, a backoff that is not an integer >= 1, a predicate that is
\* not a function
MalformedFields(ro) ==
    {f \in {"retryMaxDuration", "retryInitialDelay", "socketTimeout"} :
        ro[f] # Undefined /\ ~(IsInteger(ro[f]) /\ ro[f].v >= 0)}
    \cup {f \in {"retryBackoff"} :
             ro[f] # Undefined /\ ~(IsInteger(ro[f]) /\ ro[f].v >= Whole(1))}
    \cup {f \in {"retryOnHttpResponse", "retryOnHttpError"} :
             ro[f] # Undefined /\ ro[f].t # "function"}

\* the message of field f, as the tests of the package expect it
MessageOf(f, value) ==
    CASE f = "retryBackoff" ->
            Err("Error", "none", <<"retryBackoff must be a positive integer >= 1">>,
                "checkParameters")
      [] f \in {"retryOnHttpResponse", "retryOnHttpError"} ->
            [name |-> "Error", type |-> "none",
             message |-> <<"'" \o f \o "' must be a function: ">>, arg |-> value,
             by |-> "checkParameters"]
      [] OTHER ->
            Err("Error", "none", <<f \o " must not be a negative integer">>,
                "checkParameters")

\* the call was rejected with the message of one of the fields in fs, before any attempt
RejectedFor(c, fs) ==
    /\ c.pc = "rejected"
    /\ c.attempt = 0
    /\ c.hist = <<>>
    /\ ctlCount = 0
    /\ \E f \in fs : c.result = [k |-> "error", error |-> MessageOf(f, c.given[f])]

(* C15: for every retry options object with at least one malformed field the     *)
(* call fails with the message of that field and no transport attempt is made.   *)
C15_MalformedOptionsRejected ==
    \A c \in CallIds :
       (calls[c].pc # "idle" /\ calls[c].given.kind = "object"
           /\ MalformedFields(calls[c].given) # {}) =>
          RejectedFor(calls[c], MalformedFields(calls[c].given))

\* C15 of the malformed values that are not falsy (a backoff may be falsy)
C15_TruthyMalformedRejected ==
    \A c \in CallIds :
       LET bad == {f \in MalformedFields(calls[c].given) :
                      Truthy(calls[c].given[f]) \/ f = "retryBackoff"}
       IN  (calls[c].pc # "idle" /\ calls[c].given.kind = "object" /\ bad # {}) =>
              RejectedFor(calls[c], bad)

(* C16: every policy retryInit returns has a maxDuration >= 0, an initial delay  *)
(* >= 0, a backoff factor >= 1 and a socketTimeout that is a number >= 0,        *)
(* whatever the options, the environment and the deadline are; otherwise the     *)
(* call fails before any attempt.                                                *)
C16_ResolvedPolicyIsValid ==
    \A c \in CallIds :
       (calls[c].pc # "idle" /\ MalformedFields(calls[c].given) = {}) =>
          \/ calls[c].resolved.kind = "object" /\ ValidPolicy(calls[c])
          \/ calls[c].resolved.kind = "false"
          \/ calls[c].resolved.kind = "none" /\ calls[c].pc = "rejected"
                /\ calls[c].attempt = 0

\* C16 where no default comes from the environment, the socket timeout is not
\* forced and the deadline has not passed
C16_ValidWithoutEnvironment ==
    \A c \in CallIds :
       (/\ calls[c].pc # "idle"
        /\ env.NODE_FETCH_RETRY_MAX_RETRY = Undefined
        /\ ~ForceSocketTimeout(calls[c].given, env)
        /\ LessThan(Num(0), timeTillActionTimeout(env, StartOfTime))
              \/ ~Truthy(timeTillActionTimeout(env, StartOfTime))) =>
          \/ calls[c].resolved.kind = "object" /\ ValidPolicy(calls[c])
          \/ calls[c].resolved.kind = "none" /\ calls[c].pc = "rejected"
                /\ calls[c].attempt = 0

\* the resolved policy of c has the caller's value x in field f, maxDuration unless
\* clamped to the time till the deadline, socketTimeout unless halved from maxDuration
UsesGiven(c, f, x) ==
    CASE f = "retryMaxDuration" ->
            \/ c.resolved.retryMaxDuration = x.v
            \/ /\ env.OW_ACTION_DEADLINE # Undefined
               /\ Num(c.resolved.retryMaxDuration)
                     = timeTillActionTimeout(env, c.resolved.startTime)
      [] f = "socketTimeout" ->
            \/ c.resolved.socketTimeout = x
            \/ /\ ~ForceSocketTimeout(c.given, env)
               /\ x.v >= c.resolved.retryMaxDuration
               /\ c.resolved.socketTimeout.t = "number"
               /\ Whole(1) * c.resolved.socketTimeout.v = c.resolved.retryMaxDuration
      [] OTHER -> c.resolved[f] = x.v

NumberFields == {"retryMaxDuration", "retryInitialDelay", "retryBackoff", "socketTimeout"}

(* C17: every value the caller gives that passes validation (an integer >= 0 for *)
(* retryMaxDuration, retryInitialDelay and socketTimeout, an integer >= 1 for    *)
(* retryBackoff) is the value of the resolved policy, whatever the environment   *)
(* variables are; retryMaxDuration subject to the deadline clamp alone,          *)
(* socketTimeout to the clamp to half of maxDuration alone.                      *)
C17_UserValuesWin ==
    \A c \in CallIds :
       (calls[c].resolved.kind = "object" /\ MalformedFields(calls[c].given) = {}) =>
          \A f \in NumberFields :
             calls[c].given[f] # Undefined => UsesGiven(calls[c], f, calls[c].given[f])

\* C17 of the values that are not 0
C17_UserValuesAboveZeroWin ==
    \A c \in CallIds :
       (calls[c].resolved.kind = "object" /\ MalformedFields(calls[c].given) = {}) =>
          \A f \in NumberFields :
             Truthy(calls[c].given[f]) => UsesGiven(calls[c], f, calls[c].given[f])

\* the number of environment variable x, or the hard default d when x is not set
EnvironmentOrHard(x, d) == IF x = Undefined THEN d ELSE x.v

\* what C18 says field f resolves to when the caller gives none
DefaultOf(f) ==
    CASE f = "retryMaxDuration" ->
            EnvironmentOrHard(env.NODE_FETCH_RETRY_MAX_RETRY, ms(60000))
      [] f = "retryInitialDelay" ->
            EnvironmentOrHard(env.NODE_FETCH_RETRY_INITIAL_WAIT, ms(100))
      [] f = "retryBackoff" ->
            EnvironmentOrHard(env.NODE_FETCH_RETRY_BACKOFF, Whole(2))
      [] f = "socketTimeout" ->
            EnvironmentOrHard(env.NODE_FETCH_RETRY_SOCKET_TIMEOUT, ms(30000))

(* C18: each of maxDuration, initial delay, backoff factor and socketTimeout     *)
(* that the caller does not give resolves to the value of its environment        *)
(* variable when that is set and to the hard default 60000, 100, 2, 30000        *)
(* otherwise (maxDuration and socketTimeout up to their clamps).                 *)
C18_DefaultsFromEnvironment ==
    \A c \in CallIds :
       (calls[c].resolved.kind = "object" /\ MalformedFields(calls[c].given) = {}) =>
          \A f \in NumberFields :
             calls[c].given[f] = Undefined =>
                UsesGiven(calls[c], f, Num(DefaultOf(f)))

\* C18 of the calls whose socket timeout is not forced
C18_DefaultsUnlessForced ==
    \A c \in CallIds :
       (calls[c].resolved.kind = "object" /\ MalformedFields(calls[c].given) = {}
           /\ ~ForceSocketTimeout(calls[c].given, env)) =>
          \A f \in NumberFields :
             calls[c].given[f] = Undefined =>
                UsesGiven(calls[c], f, Num(DefaultOf(f)))

\* the maxDuration asked for: the caller's, or the default
RequestedMaxDuration(c) ==
    IF Truthy(c.given.retryMaxDuration) THEN c.given.retryMaxDuration.v
    ELSE DefaultOf("retryMaxDuration")

\* milliseconds (in halves) from the start of the call to the deadline
TimeTillDeadline(c) == env.OW_ACTION_DEADLINE.v - c.resolved.startTime

Min(a, b) == IF a <= b THEN a ELSE b

(* C19: whenever a deadline is set, the resolved maxDuration is the smaller of   *)
(* the requested maxDuration and the time remaining until the deadline, for      *)
(* every deadline, one equal to the current time included.                       *)
C19_ClampedToDeadline ==
    \A c \in CallIds :
       (calls[c].resolved.kind = "object" /\ MalformedFields(calls[c].given) = {}
           /\ env.OW_ACTION_DEADLINE.t = "numstring") =>
          /\ calls[c].resolved.retryMaxDuration
                = Min(RequestedMaxDuration(calls[c]), TimeTillDeadline(calls[c]))
          /\ calls[c].resolved.retryMaxDuration <= TimeTillDeadline(calls[c])
          /\ calls[c].resolved.retryMaxDuration <= RequestedMaxDuration(calls[c])

\* C19 of the deadlines that are not the current time
C19_ClampedUnlessDeadlineIsNow ==
    \A c \in CallIds :
       (calls[c].resolved.kind = "object" /\ MalformedFields(calls[c].given) = {}
           /\ env.OW_ACTION_DEADLINE.t = "numstring"
           /\ TimeTillDeadline(calls[c]) # 0) =>
          calls[c].resolved.retryMaxDuration
             = Min(RequestedMaxDuration(calls[c]), TimeTillDeadline(calls[c]))

\* the socketTimeout C20 states for the given timeout s and the resolved maxDuration m
StatedSocketTimeout(c, s, m) ==
    IF ForceSocketTimeout(c.given, env) THEN c.resolved.socketTimeout = s
    ELSE IF s.v >= m
         THEN c.resolved.socketTimeout.t = "number"
                 /\ Whole(1) * c.resolved.socketTimeout.v = m
         ELSE c.resolved.socketTimeout = s

\* the caller gave a socketTimeout that is an integer >= 0
GaveSocketTimeout(c) ==
    /\ c.resolved.kind = "object"
    /\ MalformedFields(c.given) = {}
    /\ c.given.socketTimeout # Undefined

(* C20: for every socketTimeout s the caller gives and the resolved maxDuration  *)
(* m: when the timeout is not forced the policy's socketTimeout is m / 2 if s >= *)
(* m and s otherwise; when it is forced, by option or environment variable, it   *)
(* is s, also when s exceeds m.                                                  *)
C20_SocketTimeoutClamp ==
    \A c \in CallIds :
       GaveSocketTimeout(calls[c]) =>
          StatedSocketTimeout(calls[c], calls[c].given.socketTimeout,
                              calls[c].resolved.retryMaxDuration)

\* C20 of the socket timeouts above 0
C20_SocketTimeoutAboveZeroClamp ==
    \A c \in CallIds :
       (GaveSocketTimeout(calls[c]) /\ calls[c].given.socketTimeout.v > 0) =>
          StatedSocketTimeout(calls[c], calls[c].given.socketTimeout,
                              calls[c].resolved.retryMaxDuration)

-----------------------------------------------------------------------------
\* retryInit returned a policy for validated options without the timeout forced
ResolvedUnforced(c) ==
    /\ c.resolved.kind = "object"
    /\ MalformedFields(c.given) = {}
    /\ ~ForceSocketTimeout(c.given, env)

(* C21: in every resolved policy whose socket timeout is not forced,             *)
(* socketTimeout < maxDuration, whatever the options, the environment defaults   *)
(* and the deadline are.                                                         *)
C21_SocketTimeoutBelowMaxDuration ==
    \A c \in CallIds :
       ResolvedUnforced(calls[c]) =>
          /\ calls[c].resolved.socketTimeout.t = "number"
          /\ calls[c].resolved.socketTimeout.v < calls[c].resolved.retryMaxDuration

\* C21 of the policies whose maxDuration is above 0
C21_BelowPositiveMaxDuration ==
    \A c \in CallIds :
       (ResolvedUnforced(calls[c]) /\ calls[c].resolved.retryMaxDuration > 0) =>
          /\ calls[c].resolved.socketTimeout.t = "number"
          /\ calls[c].resolved.socketTimeout.v < calls[c].resolved.retryMaxDuration

\* line 85 held: the timeout asked for was not below maxDuration and was halved
SocketTimeoutClamped(c) ==
    /\ ResolvedUnforced(c)
    /\ (IF Truthy(c.given.socketTimeout) THEN c.given.socketTimeout.v
        ELSE DefaultOf("socketTimeout")) >= c.resolved.retryMaxDuration
    /\ c.resolved.retryOnHttpError = DefaultRetryOnHttpError

\* the first attempt of c ended with the AbortError its own timer caused
FirstAttemptTimedOut(c) ==
    /\ Len(c.hist) >= 1
    /\ c.hist[1].got = "error"
    /\ c.hist[1].signal.src = "controller"
    /\ c.hist[1].signal \in aborted

(* C22: under a policy whose socketTimeout was clamped to maxDuration / 2 (not   *)
(* forced, default error predicate), when the first attempt ends because its     *)
(* socket timeout expired, at least one further attempt is made before the call  *)
(* terminates.                                                                   *)
C22_RetryAfterFirstTimeout ==
    \A c \in CallIds :
       (SocketTimeoutClamped(calls[c]) /\ FirstAttemptTimedOut(calls[c])
           /\ Settled(calls[c])) =>
          Len(calls[c].hist) >= 2

\* C22 of the calls whose first wait was shorter than the budget left at the timeout
C22_RetryWhenWaitFits ==
    \A c \in CallIds :
       (SocketTimeoutClamped(calls[c]) /\ FirstAttemptTimedOut(calls[c])
           /\ Settled(calls[c])
           /\ calls[c].hist[1].wait.v < BudgetLeft(calls[c], calls[c].hist[1])) =>
          Len(calls[c].hist) >= 2

\* the predicate asked about the outcome of c's last attempt has answered
Answered(c, k) ==
    /\ Len(c.hist) >= 1
    /\ c.outcome.k = k
    /\ Last(c).got = k
    /\ Last(c).asked
    /\ Last(c).verdict \in {"retry", "stop"}

(* C23: when the caller gives no response predicate the one in force is the      *)
(* default, and it answers true exactly for a response of status 500 or above:   *)
(* the attempt is retried for such a response and for no response below 500.     *)
C23_DefaultResponsePredicate ==
    \A c \in CallIds :
       (calls[c].resolved.kind = "object"
           /\ calls[c].given.retryOnHttpResponse.t # "function") =>
          /\ calls[c].resolved.retryOnHttpResponse = DefaultRetryOnHttpResponse
          /\ calls[c].retryOptions.retryOnHttpResponse = DefaultRetryOnHttpResponse
          /\ Answered(calls[c], "response") =>
                (Last(calls[c]).verdict = "retry"
                    <=> calls[c].outcome.response.status >= 500)

C23_Witness ==
    \E c \in CallIds :
       /\ calls[c].resolved.kind = "object"
       /\ calls[c].given.retryOnHttpResponse.t # "function"
       /\ Answered(calls[c], "response")
       /\ calls[c].outcome.response.status = 500
       /\ Last(calls[c]).verdict = "retry"
       /\ calls[c].pc = "waiting"

\* the errors the default error predicate retries
RetriedByDefault(error) ==
    \/ error.name = "FetchError" /\ error.type = "system"
    \/ error.name = "AbortError"

(* C24: when the caller gives no error predicate the one in force is the         *)
(* default, and it answers true exactly for a FetchError of type system and for  *)
(* an AbortError: the attempt is retried for these and for no other error.       *)
C24_DefaultErrorPredicate ==
    \A c \in CallIds :
       (calls[c].resolved.kind = "object"
           /\ calls[c].given.retryOnHttpError.t # "function") =>
          /\ calls[c].resolved.retryOnHttpError = DefaultRetryOnHttpError
          /\ calls[c].retryOptions.retryOnHttpError = DefaultRetryOnHttpError
          /\ Answered(calls[c], "error") =>
                (Last(calls[c]).verdict = "retry"
                    <=> RetriedByDefault(calls[c].outcome.error))

C24_Witness ==
    \E c \in CallIds :
       /\ calls[c].resolved.kind = "object"
       /\ calls[c].given.retryOnHttpError.t # "function"
       /\ Answered(calls[c], "error")
       /\ calls[c].outcome.error = RedirectError
       /\ Last(calls[c]).verdict = "stop"
       /\ calls[c].pc = "rejected"

\* c is between two attempts or has left wrappedFetch
BetweenOrEnded(c) == c.pc \in {"waiting", "resolved", "rejected", "abandoned", "capped"}

(* C25: while a call waits between two attempts, and once it has resolved or     *)
(* rejected, none of its per-attempt timers is armed: the timer of an attempt is *)
(* cleared when the attempt succeeds, fails or times out.                        *)
C25_NoTimerLeak ==
    \A c \in CallIds :
       BetweenOrEnded(calls[c]) => ~calls[c].timeoutHandler.armed

\* a timer that was due later was cleared: after a retried outcome, a response, an error
C25_Witness ==
    \E c \in CallIds :
       /\ calls[c].pc \in {"waiting", "resolved", "rejected"}
       /\ Len(calls[c].hist) >= 1
       /\ Last(calls[c]).armed
       /\ now < Last(calls[c]).timerAt
       /\ ~calls[c].timeoutHandler.armed

\* options.signal was a signal of the caller when module.exports was called
CalledWithSignal(c) == c.pc # "idle" /\ c.givenSignal.src = "caller"

(* C26: when the caller puts a signal of its own into the options, no attempt of *)
(* the call arms a timer, and every attempt passes the caller's signal to fetch. *)
C26_CallerSignalPassedUntimed ==
    \A c \in CallIds :
       CalledWithSignal(calls[c]) =>
          /\ ~calls[c].timeoutHandler.armed
          /\ \A i \in 1..Len(calls[c].hist) :
                /\ ~calls[c].hist[i].armed
                /\ calls[c].hist[i].signal = CallerSignal(calls[c].opt)

\* three attempts were made with the caller's signal
C26_Witness ==
    \E c \in CallIds :
       /\ CalledWithSignal(calls[c])
       /\ HasSocketTimeout(calls[c])
       /\ Len(calls[c].hist) >= 3
       /\ calls[c].hist[3].signal = CallerSignal(calls[c].opt)

\* c resolved at line 225 with the response of its last attempt
ResolvedAfterRetryInit(c) ==
    /\ c.pc = "resolved"
    /\ c.line = 225
    /\ c.resolved.kind = "object"
    /\ c.result.k = "response"

\* the attempt recorded in h ran under a timer of the policy's socketTimeout
DeadlineInForce(c, h) ==
    /\ h.armed
    /\ c.resolved.socketTimeout.t = "number"
    /\ h.timerAt = h.start + TimerDelay(c.resolved.socketTimeout.v)

(* C27: the response a call with retries resolves with carries, as its timeout,  *)
(* the socketTimeout of the resolved policy, and that socketTimeout is the       *)
(* deadline the attempt that produced the response ran under.  Stated here of    *)
(* the calls made without a signal of the caller.                                *)
C27_TimeoutIsTheAttemptsDeadline ==
    \A c \in CallIds :
       (ResolvedAfterRetryInit(calls[c]) /\ ~CalledWithSignal(calls[c])) =>
          /\ calls[c].result.response.timeout = calls[c].resolved.socketTimeout
          /\ DeadlineInForce(calls[c], Last(calls[c]))

\* the first half of C27, of every call
C27_TimeoutIsSocketTimeout ==
    \A c \in CallIds :
       ResolvedAfterRetryInit(calls[c]) =>
          calls[c].result.response.timeout = calls[c].resolved.socketTimeout

\* C27 of the responses of a first attempt
C27_FirstAttemptDeadline ==
    \A c \in CallIds :
       (ResolvedAfterRetryInit(calls[c]) /\ ~CalledWithSignal(calls[c])
           /\ Len(calls[c].hist) = 1) =>
          /\ calls[c].result.response.timeout = calls[c].resolved.socketTimeout
          /\ DeadlineInForce(calls[c], Last(calls[c]))

\* the wait of lines 240-242 after the attempt recorded in h
WaitAfter(h) == IF LessThan(Num(0), h.wait) THEN h.wait.v ELSE 0

(* C28: the attempts of one call are sequential: a transport call is in flight   *)
(* only for the last attempt started, and attempt k + 1 starts only after the    *)
(* outcome of attempt k was evaluated (to a retry) and the wait that followed    *)
(* the evaluation has ended.                                                     *)
C28_AttemptsAreSequential ==
    \A c \in CallIds :
       /\ \A i \in 1..Len(calls[c].hist) :
             calls[c].hist[i].got = "none" =>
                i = Len(calls[c].hist) /\ calls[c].pc = "fetching"
       /\ calls[c].pc = "fetching" => Last(calls[c]).got = "none"
       /\ \A i \in 1..(Len(calls[c].hist) - 1) :
             /\ calls[c].hist[i].verdict = "retry"
             /\ calls[c].hist[i].decidedAt >= calls[c].hist[i].start
             /\ calls[c].hist[i + 1].start
                   >= calls[c].hist[i].decidedAt + WaitAfter(calls[c].hist[i])

\* a third attempt began when the wait after the second had ended
C28_Witness ==
    \E c \in CallIds :
       /\ Len(calls[c].hist) >= 3
       /\ WaitAfter(calls[c].hist[2]) > 0
       /\ calls[c].hist[3].start
             = calls[c].hist[2].decidedAt + WaitAfter(calls[c].hist[2])
       /\ calls[c].pc = "fetching"

-----------------------------------------------------------------------------
(* Two invocations at a time, with one options object or with one each *)

TwoCalls == {1, 2}

\* the retryOptions the caller writes into each options object
SharedRetryOptions ==
    [Given EXCEPT !.retryMaxDuration = Num(ms(400)), !.retryInitialDelay = Num(ms(100)),
                  !.retryBackoff = Num(Whole(1)), !.socketTimeout = Num(ms(150))]

InitShared ==
    /\ now = StartOfTime
    /\ env = NoEnv
    /\ options = [o \in TwoCalls |-> [retryOptions |-> SharedRetryOptions,
                                      signal |-> NoSignal]]
    /\ \E o \in TwoCalls : calls = [c \in TwoCalls |-> IdleCall(IF c = 1 THEN 1 ELSE o)]
    /\ aborted = {}
    /\ ctlCount = 0

\* the two invocations are followed for this many milliseconds and attempts each
SharedElapsed == 300
SharedAttempts == 2

NextShared ==
    \/ \E c \in CallIds : Call(c)
    \/ \E c \in CallIds, status \in Statuses : FetchResponds(c, status)
    \/ \E c \in CallIds, error \in TransportErrors : FetchFails(c, error)
    \/ \E c \in CallIds : FetchAborted(c)
    \/ \E c \in CallIds : TimerFires(c)
    \/ \E c \in CallIds : calls[c].attempt < SharedAttempts /\ WaitEnds(c)
    \/ \E d \in Latencies \cup {at - now : at \in Due} :
          now + d <= StartOfTime + ms(SharedElapsed) /\ Advance(d)

SharedSpec == InitShared /\ [][NextShared]_vars

\* module.exports was called for c and its promise is not settled
InFlight(c) == c.pc \notin {"idle", "resolved", "rejected", "abandoned", "capped"}

\* what the code of invocation d reads outside of its own closure: the options object
\* it was passed (lines 200, 211, 218) and the state of the signal it passes to fetch
ReadBy(d) == <<options[calls[d].opt], calls[d].signal \in aborted>>

\* the step is one of invocation c alone
StepOf(c) ==
    /\ calls'[c] # calls[c]
    /\ \A d \in CallIds \ {c} : calls'[d] = calls[d]

(* C29: calls are independent: of two calls in flight at the same time, whether  *)
(* they were passed the same options object or one each, no step of one changes  *)
(* what the other reads.                                                         *)
C29_CallsAreIndependent ==
    [][\A c \in CallIds, d \in CallIds :
          (c # d /\ InFlight(calls[c]) /\ InFlight(calls[d]) /\ StepOf(c)) =>
             ReadBy(d)' = ReadBy(d)]_vars

\* C29 of the calls that were passed an options object each
C29_IndependentWithOwnOptions ==
    [][\A c \in CallIds, d \in CallIds :
          (c # d /\ calls[c].opt # calls[d].opt
              /\ InFlight(calls[c]) /\ InFlight(calls[d]) /\ StepOf(c)) =>
             ReadBy(d)' = ReadBy(d)]_vars

\* with an options object each, every call resolves the policy the caller wrote
C29_OwnOptionsOwnPolicy ==
    \A c \in CallIds, d \in CallIds :
       (c # d /\ calls[c].opt # calls[d].opt /\ calls[c].pc # "idle") =>
          /\ calls[c].given = SharedRetryOptions
          /\ \A i \in 1..Len(calls[c].hist) :
                /\ calls[c].hist[i].signal.src = "controller"
                /\ \A j \in 1..Len(calls[d].hist) :
                      calls[d].hist[j].signal # calls[c].hist[i].signal

-----------------------------------------------------------------------------
(* One invocation under a constant delay: retryBackoff = 1 *)

BudgetRetryOptions ==
    { [Given EXCEPT !.retryMaxDuration = Num(ms(m)), !.retryInitialDelay = Num(ms(500)),
                    !.retryBackoff = Num(Whole(1))] : m \in {1000, 1200, 2000} }

InitBudget ==
    /\ now = StartOfTime
    /\ env = NoEnv
    /\ \E ro \in BudgetRetryOptions :
          options = [o \in OneObject |-> [retryOptions |-> ro, signal |-> NoSignal]]
    /\ aborted = {}
    /\ ctlCount = 0
    /\ calls = [c \in OneCall |-> IdleCall(1)]

NextBudget ==
    \/ \E c \in CallIds : Call(c)
    \/ \E c \in CallIds, status \in Statuses : FetchResponds(c, status)
    \/ \E c \in CallIds, error \in TransportErrors : FetchFails(c, error)
    \/ \E c \in CallIds : FetchAborted(c)
    \/ \E c \in CallIds : TimerFires(c)
    \/ \E c \in CallIds : WaitEnds(c)
    \/ \E d \in Latencies \cup {at - now : at \in Due} : Advance(d)

BudgetSpec == InitBudget /\ [][NextBudget]_vars

\* the retries of c: the attempts after which lines 221 or 234 announced another
Retries(c) == Cardinality({i \in 1..Len(c.hist) : c.hist[i].verdict = "retry"})

\* the policy of c multiplies the delay by 1
ConstantDelay(c) ==
    /\ Retrying(c)
    /\ c.resolved.retryBackoff = Whole(1)
    /\ c.resolved.retryInitialDelay > 0

(* C30: with retryBackoff = 1 the delay of a call stays retryInitialDelay, every  *)
(* wait is that delay plus jitter, and the call makes no more than                *)
(* retryMaxDuration / retryInitialDelay retries: no more than 4 with             *)
(* retryMaxDuration 2000 and retryInitialDelay 500.                              *)
C30_RetriesWithinBudget ==
    \A c \in CallIds :
       ConstantDelay(calls[c]) =>
          /\ calls[c].retryOptions.retryInitialDelay = calls[c].resolved.retryInitialDelay
          /\ \A i \in 1..Len(calls[c].hist) :
                /\ calls[c].hist[i].wait.t = "number"
                /\ calls[c].hist[i].wait.v >= calls[c].resolved.retryInitialDelay
                /\ calls[c].hist[i].wait.v
                      <= calls[c].resolved.retryInitialDelay + JitterMax
          /\ Retries(calls[c]) * calls[c].resolved.retryInitialDelay
                <= calls[c].resolved.retryMaxDuration
          /\ (calls[c].resolved.retryMaxDuration = ms(2000)
                 /\ calls[c].resolved.retryInitialDelay = ms(500)) =>
                Retries(calls[c]) <= 4

\* the fourth retry of a call with retryMaxDuration 2000 and retryInitialDelay 500
C30_Witness ==
    \E c \in CallIds :
       /\ ConstantDelay(calls[c])
       /\ calls[c].resolved.retryMaxDuration = ms(2000)
       /\ calls[c].resolved.retryInitialDelay = ms(500)
       /\ Retries(calls[c]) = 4

\* the step is the callback of line 213 of a timer of c: controller.abort()
TimerExpires(c) ==
    /\ calls[c].timeoutHandler.armed
    /\ ControllerSignal(calls[c].timeoutHandler.ctl) \in aborted' \ aborted

(* C31: once the transport call of an attempt has completed, the timer of the    *)
(* attempt can no longer fire: a timer expires and aborts its signal only while  *)
(* the call is at line 218, never while a retry predicate is being evaluated for *)
(* the outcome and never after the call has resolved or rejected.                *)
C31_TimerFiresOnlyDuringFetch ==
    [][\A c \in CallIds : TimerExpires(c) => calls[c].pc = "fetching"]_vars

\* C31 of the calls whose predicates are the default ones, which answer at once
C31_DefaultPredicatesTimerDuringFetch ==
    [][\A c \in CallIds :
          (TimerExpires(c) /\ DefaultPredicates(calls[c])) =>
             calls[c].pc = "fetching"]_vars

\* no timer expires after the call has resolved or rejected
C31_NoTimerAfterSettling ==
    [][\A c \in CallIds : TimerExpires(c) => ~Settled(calls[c])]_vars

\* wrappedFetch was left by an exception: neither resolve nor reject will be called
LeftPending(c) == c.pc = "abandoned"

(* C32: every failure is surfaced to the caller: a call that does not resolve    *)
(* with a response rejects with an error, also when the response predicate or    *)
(* the error predicate raises while it is evaluated; no call is left pending     *)
(* forever with its failure lost.                                                *)
C32_NoCallLeftPending ==
    \A c \in CallIds : ~LeftPending(calls[c])

\* a call is left pending only by an error predicate of the caller that raised
C32_PendingOnlyAfterErrorPredicateRaised ==
    \A c \in CallIds :
       LeftPending(calls[c]) =>
          /\ calls[c].retryOptions.retryOnHttpError # DefaultRetryOnHttpError
          /\ Last(calls[c]).got = "error"
          /\ Last(calls[c]).verdict = "threw"

\* the outcome shouldRetry is called for is what fetch returned or raised at line 218
TransportOutcome(c) ==
    \/ c.outcome.k = "response"
    \/ c.outcome.k = "error" /\ c.outcome.error.by \in {"transport", "timer", "caller"}

(* C33: for every attempt the retry decision is evaluated exactly once, for the  *)
(* response the transport returned or for the error the transport raised: no     *)
(* attempt has shouldRetry called twice, and the error predicate is asked only   *)
(* about an error of the transport call.                                         *)
C33_DecisionEvaluatedOnce ==
    \A c \in CallIds :
       /\ \A i \in 1..Len(calls[c].hist) :
             /\ calls[c].hist[i].evals <= 1
             /\ calls[c].hist[i].got # "none" => calls[c].hist[i].evals = 1
       /\ calls[c].pc \in {"evalResponse", "evalError"} => TransportOutcome(calls[c])

\* C33 of the attempts in which no predicate of the caller has raised
C33_OnceUnlessPredicateRaised ==
    \A c \in CallIds :
       /\ \A i \in 1..Len(calls[c].hist) :
             (calls[c].hist[i].evals > 1 \/ calls[c].hist[i].got = "none") =>
                \/ calls[c].hist[i].got = "none" /\ calls[c].hist[i].evals = 0
                \/ /\ calls[c].hist[i].evals = 2
                   /\ calls[c].resolved.retryOnHttpResponse # DefaultRetryOnHttpResponse
       /\ (calls[c].pc \in {"evalResponse", "evalError"} /\ Last(calls[c]).evals = 1) =>
             TransportOutcome(calls[c])

\* the time since the policy's startTime at which the attempt recorded in h began
ElapsedAtStart(c, h) == h.start - c.resolved.startTime

(* C34: under a policy with retries a transport call is started only while the   *)
(* budget remaining is positive: every attempt begins at an elapsed time below   *)
(* retryMaxDuration since the policy's startTime.                                *)
C34_AttemptsStartWithinBudget ==
    \A c \in CallIds :
       calls[c].resolved.kind = "object" =>
          \A i \in 1..Len(calls[c].hist) :
             /\ ElapsedAtStart(calls[c], calls[c].hist[i]) >= 0
             /\ ElapsedAtStart(calls[c], calls[c].hist[i])
                   < calls[c].resolved.retryMaxDuration

\* the loop was left at line 245 when a wait ended with no time remaining, after two
\* attempts that began within the budget
C34_Witness ==
    \E c \in CallIds :
       /\ calls[c].resolved.kind = "object"
       /\ Len(calls[c].hist) = 2
       /\ ElapsedAtStart(calls[c], calls[c].hist[2]) > 0
       /\ calls[c].pc = "rejected"
       /\ calls[c].line = 245
       /\ calls[c].endedAt - calls[c].resolved.startTime
             >= calls[c].resolved.retryMaxDuration

(* C35: the wait that follows the n-th unsuccessful attempt is computed from the *)
(* delay before it is multiplied: it lies between initialDelay *                 *)
(* backoffFactor^(n-1) and that plus 99; the delay is multiplied by              *)
(* backoffFactor only after the wait; and attempt n + 1 starts no earlier than   *)
(* that wait after the retry decision.                                           *)
C35_WaitFromDelayBeforeMultiplying ==
    \A c \in CallIds :
       Retrying(calls[c]) =>
          /\ DelayAfterRounds(calls[c], RoundsOver(calls[c]))
          /\ \A n \in 1..Len(calls[c].hist) :
             calls[c].hist[n].verdict = "retry" =>
                LET h == calls[c].hist[n]
                    base == calls[c].resolved.retryInitialDelay
                               * Power(calls[c].resolved.retryBackoff, n - 1)
                IN  /\ h.wait.t = "number"
                    /\ base <= h.wait.v * Power(Whole(1), n - 1)
                    /\ h.wait.v * Power(Whole(1), n - 1)
                          <= base + JitterMax * Power(Whole(1), n - 1)
                    /\ n < Len(calls[c].hist) =>
                          calls[c].hist[n + 1].start >= h.decidedAt + h.wait.v

\* the wait after the second attempt of a call that doubles its delay, and the third
\* attempt after it
C35_Witness ==
    \E c \in CallIds :
       /\ Retrying(calls[c])
       /\ calls[c].resolved.retryBackoff = Whole(2)
       /\ Len(calls[c].hist) = 3
       /\ calls[c].hist[2].verdict = "retry"
       /\ calls[c].hist[2].wait.v >= 2 * calls[c].resolved.retryInitialDelay
       /\ calls[c].hist[3].start = calls[c].hist[2].decidedAt + calls[c].hist[2].wait.v

-----------------------------------------------------------------------------
(* One invocation while the environment variables change under it *)

LaterEnvs ==
    { NoEnv,
      [NoEnv EXCEPT !.OW_ACTION_DEADLINE = NumStr(StartOfTime + ms(250))],
      [NoEnv EXCEPT !.NODE_FETCH_RETRY_MAX_RETRY = NumStr(ms(700)),
                    !.NODE_FETCH_RETRY_BACKOFF = NumStr(Whole(3)),
                    !.NODE_FETCH_RETRY_SOCKET_TIMEOUT = NumStr(ms(200))] }

InitEnv ==
    /\ now = StartOfTime
    /\ env \in LaterEnvs
    /\ \E ro \in {NoRetryOptions,
                  [Given EXCEPT !.retryMaxDuration = Num(ms(400)),
                                !.retryInitialDelay = Num(ms(100)),
                                !.socketTimeout = Num(ms(150))]} :
          options = [o \in OneObject |-> [retryOptions |-> ro, signal |-> NoSignal]]
    /\ aborted = {}
    /\ ctlCount = 0
    /\ calls = [c \in OneCall |-> IdleCall(1)]

\* process.env is assigned to after retryInit has returned
EnvChanges(e) ==
    /\ e # env
    /\ \E c \in CallIds : InFlight(calls[c])
    /\ env' = e
    /\ UNCHANGED <<now, options, aborted, ctlCount, calls>>

NextEnv ==
    \/ \E c \in CallIds : Call(c)
    \/ \E c \in CallIds, status \in Statuses : FetchResponds(c, status)
    \/ \E c \in CallIds, error \in TransportErrors : FetchFails(c, error)
    \/ \E c \in CallIds : FetchAborted(c)
    \/ \E c \in CallIds : TimerFires(c)
    \/ \E c \in CallIds : WaitEnds(c)
    \/ \E d \in Latencies \cup {at - now : at \in Due} : Advance(d)
    \/ \E e \in LaterEnvs : EnvChanges(e)

EnvSpec == InitEnv /\ [][NextEnv]_vars

\* the fields of a policy other than the current delay
PolicyFrame(retryOptions) == [retryOptions EXCEPT !.retryInitialDelay = 0]

(* C36: once the policy is resolved, its startTime, retryMaxDuration,            *)
(* retryBackoff, socketTimeout and both predicates are left as they are by every *)
(* step of the call and by every later change of the environment variables or    *)
(* of the deadline; the current delay is the only field of the policy a step     *)
(* changes.                                                                      *)
C36_OnlyTheDelayChanges ==
    [][\A c \in CallIds :
          Retrying(calls'[c]) =>
             /\ PolicyFrame(calls'[c].retryOptions) = PolicyFrame(calls'[c].resolved)
             /\ Retrying(calls[c]) =>
                   /\ PolicyFrame(calls'[c].retryOptions)
                         = PolicyFrame(calls[c].retryOptions)
                   /\ calls'[c].resolved = calls[c].resolved]_vars

\* the environment now resolves another policy than the one the call resolved, the call
\* is in its third attempt and its delay is no longer the initial one
C36_Witness ==
    \E c \in CallIds :
       /\ Retrying(calls[c])
       /\ Len(calls[c].hist) >= 3
       /\ calls[c].pc = "fetching"
       /\ calls[c].retryOptions.retryInitialDelay # calls[c].resolved.retryInitialDelay
       /\ PolicyFrame(retryInit([retryOptions |-> calls[c].given, signal |-> NoSignal],
                                env, calls[c].resolved.startTime))
             # PolicyFrame(calls[c].resolved)

\* resolve or reject of the promise returned to the caller has been called for c
HasSettled(c) == c.settled >= 1

(* C37: a call settles exactly once and its terminal states are absorbing: after *)
(* it has resolved or rejected it starts no transport call, arms no timer,       *)
(* enters no wait and does not settle again, whatever else goes on.              *)
C37_SettlesOnceAndStops ==
    [][\A c \in CallIds :
          /\ calls'[c].settled <= 1
          /\ HasSettled(calls'[c]) => Settled(calls'[c]) /\ ~calls'[c].timeoutHandler.armed
          /\ HasSettled(calls[c]) => calls'[c] = calls[c]]_vars

\* one call has settled after two attempts and the other call has gone on since
C37_Witness ==
    \E c \in CallIds, d \in CallIds :
       /\ c # d
       /\ HasSettled(calls[c])
       /\ Len(calls[c].hist) >= 2
       /\ Len(calls[d].hist) >= 1
       /\ Last(calls[d]).start > calls[c].endedAt

\* module.exports was called for c and checkParameters did not throw
PassedValidation(c) == c.pc # "idle" /\ c.resolved.kind \in {"object", "false"}

(* C38: every call whose options pass validation makes at least one transport    *)
(* attempt before it terminates, whatever the defaults of the environment and    *)
(* the deadline are, a deadline already passed included.                         *)
C38_AtLeastOneAttempt ==
    \A c \in CallIds :
       (PassedValidation(calls[c]) /\ Terminal(calls[c])) => Len(calls[c].hist) >= 1

\* C38 of the calls whose resolved retryMaxDuration is above 0
C38_OneAttemptWithPositiveBudget ==
    \A c \in CallIds :
       (PassedValidation(calls[c])
           /\ (calls[c].resolved.kind = "object" => calls[c].resolved.retryMaxDuration > 0)) =>
          /\ Len(calls[c].hist) >= 1
          /\ calls[c].hist[1].start = now

\* the options object as the caller of the two invocations wrote it
AsTheCallerSetIt == [retryOptions |-> SharedRetryOptions, signal |-> NoSignal]

(* C39: a call leaves the options object it was given unchanged: once it has     *)
(* been called the object's retryOptions and signal are those the caller set,    *)
(* so a second call made with the same object resolves the same policy and arms  *)
(* the timer of its first attempt as the first call did.                         *)
C39_OptionsObjectUnchanged ==
    \A c \in CallIds :
       calls[c].pc # "idle" =>
          /\ options[calls[c].opt] = AsTheCallerSetIt
          /\ \A d \in CallIds :
                (calls[d].opt = calls[c].opt /\ calls[d].pc # "idle") =>
                   /\ PolicyFrame(calls[d].resolved)
                         = [PolicyFrame(calls[c].resolved)
                               EXCEPT !.startTime = calls[d].resolved.startTime]
                   /\ calls[d].hist[1].armed = calls[c].hist[1].armed

\* a call made with no retryOptions and with a signal of the caller writes nothing
C39_UnchangedWhenNothingToWrite ==
    \A c \in CallIds :
       (calls[c].pc # "idle" /\ calls[c].given = NoRetryOptions
           /\ CalledWithSignal(calls[c])) =>
          options[calls[c].opt]
             = [retryOptions |-> calls[c].given, signal |-> calls[c].givenSignal]

====
